---- MODULE Spec2Model ----
(***************************************************************************)
(* Model of the string-processing pipeline: the Latch (monitor.c), the     *)
(* bounded queue (consumer_producer.c), the stage runtime                  *)
(* (plugin_common.c) and the pipeline driver (main.c).                     *)
(*                                                                         *)
(* Every thread has a program counter pc[t], a stack of return labels      *)
(* stk[t], the queue it is operating on tq[t], the argument of the call it *)
(* is in arg[t] and the value of the last return rv[t].  One action is one *)
(* critical section (a mutex-protected block) or one step between two.     *)
(* C strings are sequences of one-character strings; the null pointer is   *)
(* the value NULL.                                                         *)
(***************************************************************************)
EXTENDS Naturals, Integers, Sequences, FiniteSets, TLC

VARIABLES
    pc,         \* thread -> label of the next step
    stk,        \* thread -> sequence of return labels (innermost call first)
    tq,         \* thread -> index of the queue / stage the current call works
                \* on, or NoQueue for a null pointer
    arg,        \* thread -> string argument of the current put / place_work
    rv,         \* thread -> value returned by the last call (or item in hand)
    isfin,      \* thread -> local is_finished of consumer_producer_get
    q,          \* queue -> [items, capacity, count, head, tail]
    lockq,      \* queue -> owner of lock_queue, or NoThread
    signaled,   \* queue -> [nf, ne, fin -> monitor_t.signaled]
    committed,  \* queue -> history of the strings committed by put (ghost)
    delivered,  \* queue -> history of the strings extracted by get (ghost)
    heap,       \* the strings allocated by put and by the transforms: which
                \* are allocated, which were freed, which pointer each slot
                \* and each thread holds (ghost)
    todo,       \* test thread -> calls still to make
    got,        \* test consumer -> strings its gets returned; client of a
                \* stage -> values its calls returned; worker -> the errors
                \* it logged and the errors its place_work calls returned
                \* (ghost)
    late,       \* test consumer -> its current get was invoked after
                \* signal_finished had returned (ghost)
    mark,       \* test thread -> in a run where no thread signals finished,
                \* the length of the other side's history when its current
                \* call was issued against a full (put) or empty (get)
                \* queue, else -1; latch waiter -> the number of latch
                \* operations made when its latest wait passed, -1 before
                \* (ghost)
    ops,        \* the signal / reset calls made on the latch under test,
                \* each with the number of threads it found blocked on an
                \* unsignaled latch; main's wait_finished and fini calls,
                \* each with its stage; the latest call of the client of the
                \* queue's interface (ghost)
    ctx,        \* stage -> plugin_context_t: [initialized, finished, next]
    ctxlock,    \* stage -> owner of context_mutex, or NoThread
    xf,         \* stage -> name of the stage's transform
    nst,        \* main's plugin_count
    icount,     \* main's initialized_count
    qsize,      \* main's queue_size; the capacity the client of the queue's
                \* interface passes to init
    input,      \* the lines of standard input
    pos,        \* number of lines read so far
    endrecv,    \* main's end_received
    di,         \* main's loop index i
    out         \* the payload lines printed by the terminal stage

tvars == <<pc, stk, tq, arg, rv, isfin>>
qvars == <<q, lockq, signaled>>
gvars == <<committed, delivered, heap>>
hvars == <<todo, got, late, mark, ops>>
pvars == <<ctx, ctxlock, xf, nst, icount, qsize, input, pos, endrecv, di, out>>
vars == <<pc, stk, tq, arg, rv, isfin, q, lockq, signaled, committed,
          delivered, heap, todo, got, late, mark, ops, ctx, ctxlock, xf, nst, icount, qsize, input, pos,
          endrecv, di, out>>

(***************************************************************************)
(* Bounds of the model.                                                    *)
(***************************************************************************)
MaxCap == 2        \* queue capacities 1..MaxCap
MaxCalls == 2      \* calls each test producer / consumer / latch waiter makes
MaxOps == 4        \* signal / reset calls made on the latch under test
MaxStages == 2     \* pipelines of 1..MaxStages stages
MaxInput == 3      \* input of at most MaxInput lines
PipeCap == 1       \* pipeline queue_size 1..PipeCap
MaxApi == 4        \* calls the client of one stage's interface makes
MaxFeed == 2       \* input lines of the runs with resource failures
LongFeed == 4      \* input lines of the runs of the long feed
MaxQueueCalls == 4 \* calls the client of the queue's interface makes

(***************************************************************************)
(* Values.                                                                 *)
(***************************************************************************)
NULL == <<"NULL">>
NoThread == "none"
END == <<"<", "E", "N", "D", ">">>
ErrInvalid == <<"Invalid parameters">>
ErrFull == <<"Queue is full">>
ErrNotInit == <<"Plugin not initialized">>
ErrFinished == <<"Plugin already finished processing">>
ErrAlreadyInit == <<"Plugin already initialized">>
ErrInitArgs == <<"Invalid arguments to common_plugin_init">>
ErrMonitorWait == <<"Monitor wait failed">>
\* The int result -1.
RcFail == <<"-1">>
\* The null pointer passed for a queue or a latch.
NoQueue == -1

Producers == {"p1", "p2"}
Consumers == {"c1", "c2"}
Finisher == "f"
Waiter == "wt"
Main == "main"
WorkerName == <<"w0", "w1", "w2", "w3">>
Worker(i) == WorkerName[i + 1]
Stages == 0 .. (MaxStages - 1)
Workers == {Worker(i) : i \in Stages}
LatchWaiters == {"lw1", "lw2"}
Threads == Producers \cup Consumers \cup {Finisher, Waiter, Main} \cup Workers
               \cup LatchWaiters
\* The three latches of a queue, and the latch of the latch tests, held in
\* the record of queue 0.
Mon == {"nf", "ne", "fin", "m"}

\* create_test_string(start_value + i): a string unique to the producer and
\* the position in its run.
Digits == <<"1", "2", "3", "4", "5">>
create_test_string(t, i) == <<IF t = "p1" THEN "a" ELSE "b", Digits[i]>>

(***************************************************************************)
(* consumer_producer_init: the queue a successful init establishes.        *)
(***************************************************************************)
consumer_producer_init(c) ==
    [items |-> [i \in 0 .. (c - 1) |-> NULL],
     capacity |-> c, count |-> 0, head |-> 0, tail |-> 0]

\* monitor_init x3 (signaled = 0) followed by monitor_signal(not_full).
monitors_init == [m \in Mon |-> (m = "nf")]

\* An index advance that forgets to wrap around the ring.
AdvanceNoWrap(i, c) == i + 1
\* The three index/count updates of the ring buffer.
Advance(i, c) == (i + 1) % c

\* The strings still counted in the queue, oldest first (the slots destroy frees).
RECURSIVE SlotsFrom(_, _, _)
SlotsFrom(qr, i, n) ==
    IF n = 0 THEN <<>>
    ELSE <<qr.items[i]>> \o SlotsFrom(qr, Advance(i, qr.capacity), n - 1)
Held(qi) == SlotsFrom(q[qi], q[qi].head, q[qi].count)

(***************************************************************************)
(* The heap strings (ghost).  A string is named by where it was allocated: *)
(* the k-th copy put made for queue qi, the transform of the k-th string   *)
(* stage i's worker dequeued.  heap.slot is the pointer stored in each     *)
(* slot (it stays there after get has returned it), heap.hand the pointer  *)
(* get returned to a thread (item), heap.made the pointer the transform    *)
(* returned to it (transformed); heap.bad collects the strings freed or    *)
(* read while not allocated.                                               *)
(***************************************************************************)
NoId == <<"none", 0, 0>>
SlotId(qi) == <<"slot", qi, Len(committed[qi]) + 1>>
MadeId(i) == <<"made", i, Len(delivered[i])>>
SlotIndexes == 0 .. (MaxCap + PipeCap)
HeapInit ==
    [live |-> {}, freed |-> {}, bad |-> {},
     slot |-> [i \in Stages |-> [k \in SlotIndexes |-> NoId]],
     hand |-> [t \in Threads |-> NoId],
     made |-> [t \in Threads |-> NoId]]
\* malloc / strdup.
Alloc(h, id) == [h EXCEPT !.live = @ \cup {id}]
\* free: nothing on NULL.
Free(h, id) ==
    IF id = NoId THEN h
    ELSE IF id \in h.live
    THEN [h EXCEPT !.live = @ \ {id}, !.freed = @ \cup {id}]
    ELSE [h EXCEPT !.bad = @ \cup {id}]
\* A read of the string.
Read(h, id) == IF id = NoId \/ id \in h.live THEN h ELSE [h EXCEPT !.bad = @ \cup {id}]
\* The indexes of the slots counted in the queue.
Counted(qr) == {(qr.head + i) % qr.capacity : i \in 0 .. (qr.count - 1)}
\* A destroy that frees every slot of the array.
DestroyFreesAll(h, qi, qr) ==
    LET ids == {h.slot[qi][k] : k \in 0 .. (qr.capacity - 1)} \ {NoId} IN
    [h EXCEPT !.live = @ \ ids, !.freed = @ \cup (ids \cap h.live),
              !.bad = @ \cup (ids \ h.live)]
\* consumer_producer_destroy, lines 38-44: free the counted slots.
DestroyFrees(h, qi, qr) ==
    LET ids == {h.slot[qi][k] : k \in Counted(qr)} \ {NoId} IN
    [h EXCEPT !.live = @ \ ids, !.freed = @ \cup (ids \cap h.live),
              !.bad = @ \cup (ids \ h.live)]

(***************************************************************************)
(* Call and return.                                                        *)
(***************************************************************************)
Call(t, entry, cont, qi, a) ==
    /\ pc' = [pc EXCEPT ![t] = entry]
    /\ stk' = [stk EXCEPT ![t] = <<cont>> \o @]
    /\ tq' = [tq EXCEPT ![t] = qi]
    /\ arg' = [arg EXCEPT ![t] = a]

\* pc after thread t returns, other threads' pcs taken from p.
Ret(p, t) == [p EXCEPT ![t] = Head(stk[t])]
Pop(t) == stk' = [stk EXCEPT ![t] = Tail(@)]

(***************************************************************************)
(* Latch (monitor.c).  A thread blocked in pthread_cond_wait on monitor m  *)
(* of queue qi has pc = Blocked(m) and tq = qi; waking it sends it back to *)
(* the while (!m->signaled) test at Entry(m).                              *)
(***************************************************************************)
Blocked(m) == CASE m = "nf" -> "put_blocked"
                [] m = "ne" -> "get_blocked"
                [] m = "fin" -> "wf_blocked"
                [] m = "m" -> "mw_blocked"
Entry(m) == CASE m = "nf" -> "put_wait"
              [] m = "ne" -> "get_wait"
              [] m = "fin" -> "wf_wait"
              [] m = "m" -> "mw_wait"
Waiters(qi, m) == {u \in Threads : pc[u] = Blocked(m) /\ tq[u] = qi}

\* A pthread_cond_signal that wakes no thread.
SignalWakesNone(qi, m) == {{}}
\* pthread_cond_signal: one of the waiters, if there is any.
SignalWakes(qi, m) == IF Waiters(qi, m) = {} THEN {{}} ELSE {{w} : w \in Waiters(qi, m)}
\* pthread_cond_broadcast: all the waiters.
BroadcastWakes(qi, m) == {Waiters(qi, m)}

WakeUp(p, ws, m) == [u \in Threads |-> IF u \in ws THEN Entry(m) ELSE p[u]]

\* A signal that leaves the flag as it is.
monitor_signal_noop(sg, m) == sg
\* A signal that flips the flag instead of setting it.
monitor_signal_flip(sg, m) == [sg EXCEPT ![m] = ~sg[m]]
\* monitor_signal(m): signaled = 1 and pthread_cond_signal.
monitor_signal(sg, m) == [sg EXCEPT ![m] = TRUE]
\* A reset that leaves the flag as it is.
monitor_reset_noop(sg, m) == sg
\* monitor_reset(m): signaled = 0.
monitor_reset(sg, m) == [sg EXCEPT ![m] = FALSE]

\* A wait that passes whatever the flag says.
MonitorNoWait(t, m, next) ==
    /\ pc[t] = Entry(m)
    /\ pc' = [pc EXCEPT ![t] = next]
    /\ UNCHANGED <<stk, tq, arg, rv, isfin, qvars, gvars, hvars, pvars>>
\* monitor_wait(m) at its while test: pass if signaled, else block.
MonitorWait(t, m, next) ==
    /\ pc[t] = Entry(m)
    /\ pc' = [pc EXCEPT ![t] = IF signaled[tq[t]][m] THEN next ELSE Blocked(m)]
    /\ UNCHANGED <<stk, tq, arg, rv, isfin, qvars, gvars, hvars, pvars>>

\* A spurious return of pthread_cond_wait: back to the while test.
SpuriousWake(t) ==
    /\ pc[t] \in {Blocked(m) : m \in Mon}
    /\ \E m \in Mon : pc[t] = Blocked(m) /\ pc' = [pc EXCEPT ![t] = Entry(m)]
    /\ UNCHANGED <<stk, tq, arg, rv, isfin, qvars, gvars, hvars, pvars>>

(***************************************************************************)
(* consumer_producer_put                                                   *)
(***************************************************************************)
\* put, line 64: monitor_wait(not_full).
PutWait(t) == MonitorWait(t, "nf", "put_lock")

\* A space test that never resets not_full.
StillSpaceAlways(qr) == TRUE
\* put, line 86: the queue still has space after the insertion.
StillSpace(qr) == qr.count < qr.capacity

\* An insert that writes the head slot instead of the tail slot.
InsertAtHead(qr, s) ==
    [qr EXCEPT !.items[qr.head] = s,
               !.tail = Advance(qr.tail, qr.capacity),
               !.count = qr.count + 1]
\* put, lines 76-83: copy into the tail slot, advance tail, count++.
Insert(qr, s) ==
    [qr EXCEPT !.items[qr.tail] = s,
               !.tail = Advance(qr.tail, qr.capacity),
               !.count = qr.count + 1]

\* put, lines 69-83: take lock_queue, re-check, insert.
PutLock(t) ==
    LET qi == tq[t] IN
    /\ pc[t] = "put_lock"
    /\ lockq[qi] = NoThread
    /\ IF q[qi].count >= q[qi].capacity
       THEN /\ pc' = Ret(pc, t)
            /\ Pop(t)
            /\ rv' = [rv EXCEPT ![t] = ErrFull]
            /\ UNCHANGED <<q, lockq, committed, heap>>
       ELSE /\ q' = [q EXCEPT ![qi] = Insert(q[qi], arg[t])]
            /\ lockq' = [lockq EXCEPT ![qi] = t]
            /\ committed' = [committed EXCEPT ![qi] = Append(@, arg[t])]
            /\ heap' = [Alloc(Read(heap, heap.made[t]), SlotId(qi))
                           EXCEPT !.slot[qi][q[qi].tail] = SlotId(qi)]
            /\ pc' = [pc EXCEPT ![t] = "put_nf"]
            /\ UNCHANGED <<stk, rv>>
    /\ UNCHANGED <<tq, arg, isfin, signaled, delivered, hvars, pvars>>

\* put, lines 86-90: re-signal or reset not_full.
PutNotFull(t) ==
    LET qi == tq[t] IN
    /\ pc[t] = "put_nf"
    /\ IF StillSpace(q[qi])
       THEN \E ws \in SignalWakes(qi, "nf") :
              /\ signaled' = [signaled EXCEPT ![qi] = monitor_signal(@, "nf")]
              /\ pc' = WakeUp([pc EXCEPT ![t] = "put_ne"], ws, "nf")
       ELSE /\ signaled' = [signaled EXCEPT ![qi] = monitor_reset(@, "nf")]
            /\ pc' = [pc EXCEPT ![t] = "put_ne"]
    /\ UNCHANGED <<stk, tq, arg, rv, isfin, q, lockq, gvars, hvars, pvars>>

\* put, lines 93-95: signal not_empty, unlock, return NULL.
PutNotEmpty(t) ==
    LET qi == tq[t] IN
    /\ pc[t] = "put_ne"
    /\ \E ws \in SignalWakes(qi, "ne") :
          /\ signaled' = [signaled EXCEPT ![qi] = monitor_signal(@, "ne")]
          /\ pc' = WakeUp(Ret(pc, t), ws, "ne")
    /\ Pop(t)
    /\ rv' = [rv EXCEPT ![t] = NULL]
    /\ lockq' = [lockq EXCEPT ![qi] = NoThread]
    /\ UNCHANGED <<tq, arg, isfin, q, gvars, hvars, pvars>>

(***************************************************************************)
(* consumer_producer_get                                                   *)
(***************************************************************************)
\* get, lines 105-107: sample finished_monitor.signaled.
GetSampleFinished(t) ==
    /\ pc[t] = "get_fin"
    /\ isfin' = [isfin EXCEPT ![t] = signaled[tq[t]]["fin"]]
    /\ pc' = [pc EXCEPT ![t] = "get_empty"]
    /\ UNCHANGED <<stk, tq, arg, rv, qvars, gvars, hvars, pvars>>

\* A get that ignores the finished flag it sampled.
NeverFinishedAndEmpty(f, qr) == FALSE
\* A get that gives up as soon as finished is signaled, items or not.
FinishedOnly(f, qr) == f
\* get, line 114: finished and empty.
FinishedAndEmpty(f, qr) == f /\ qr.count = 0

\* get, lines 109-116: sample count == 0 under lock_queue; return NULL if
\* finished and empty.
GetSampleEmpty(t) ==
    LET qi == tq[t] IN
    /\ pc[t] = "get_empty"
    /\ lockq[qi] = NoThread
    /\ IF FinishedAndEmpty(isfin[t], q[qi])
       THEN /\ pc' = Ret(pc, t)
            /\ Pop(t)
            /\ rv' = [rv EXCEPT ![t] = NULL]
       ELSE /\ pc' = [pc EXCEPT ![t] = "get_wait"]
            /\ UNCHANGED <<stk, rv>>
    /\ UNCHANGED <<tq, arg, isfin, qvars, gvars, hvars, pvars>>

\* get, line 119: monitor_wait(not_empty).
GetWait(t) == MonitorWait(t, "ne", "get_take")

\* An extract that leaves head where it was.
ExtractNoAdvance(qr) == [qr EXCEPT !.count = qr.count - 1]
\* get, lines 129-131: extract the head slot, advance head, count--.
Extract(qr) ==
    [qr EXCEPT !.head = Advance(qr.head, qr.capacity),
               !.count = qr.count - 1]

\* get, lines 124-131: take lock_queue; extract if there is an item.
GetTake(t) ==
    LET qi == tq[t] IN
    /\ pc[t] = "get_take"
    /\ lockq[qi] = NoThread
    /\ lockq' = [lockq EXCEPT ![qi] = t]
    /\ IF q[qi].count > 0
       THEN /\ rv' = [rv EXCEPT ![t] = q[qi].items[q[qi].head]]
            /\ q' = [q EXCEPT ![qi] = Extract(q[qi])]
            /\ delivered' = [delivered EXCEPT ![qi] = Append(@, q[qi].items[q[qi].head])]
            /\ heap' = [heap EXCEPT !.hand[t] = heap.slot[qi][q[qi].head]]
            /\ pc' = [pc EXCEPT ![t] = "get_ne"]
       ELSE /\ pc' = [pc EXCEPT ![t] = "get_fin2"]
            /\ UNCHANGED <<rv, q, delivered, heap>>
    /\ UNCHANGED <<stk, tq, arg, isfin, signaled, committed, hvars, pvars>>

\* An emptiness test that always resets not_empty.
StillItemsNever(qr) == FALSE
\* An emptiness test that never resets not_empty.
StillItemsAlways(qr) == TRUE
\* get, line 134: items remain after the extraction.
StillItems(qr) == qr.count > 0

\* get, lines 134-138: re-signal or reset not_empty.
GetNotEmpty(t) ==
    LET qi == tq[t] IN
    /\ pc[t] = "get_ne"
    /\ IF StillItems(q[qi])
       THEN \E ws \in SignalWakes(qi, "ne") :
              /\ signaled' = [signaled EXCEPT ![qi] = monitor_signal(@, "ne")]
              /\ pc' = WakeUp([pc EXCEPT ![t] = "get_nf"], ws, "ne")
       ELSE /\ signaled' = [signaled EXCEPT ![qi] = monitor_reset(@, "ne")]
            /\ pc' = [pc EXCEPT ![t] = "get_nf"]
    /\ UNCHANGED <<stk, tq, arg, rv, isfin, q, lockq, gvars, hvars, pvars>>

\* get, lines 141-144: signal not_full, unlock, return the item.
GetNotFull(t) ==
    LET qi == tq[t] IN
    /\ pc[t] = "get_nf"
    /\ \E ws \in SignalWakes(qi, "nf") :
          /\ signaled' = [signaled EXCEPT ![qi] = monitor_signal(@, "nf")]
          /\ pc' = WakeUp(Ret(pc, t), ws, "nf")
    /\ Pop(t)
    /\ lockq' = [lockq EXCEPT ![qi] = NoThread]
    /\ UNCHANGED <<tq, arg, rv, isfin, q, gvars, hvars, pvars>>

\* get, lines 148-160: the queue was empty after the wake: re-sample
\* finished, unlock, return NULL if finished, else loop.
GetRecheck(t) ==
    LET qi == tq[t] IN
    /\ pc[t] = "get_fin2"
    /\ lockq' = [lockq EXCEPT ![qi] = NoThread]
    /\ isfin' = [isfin EXCEPT ![t] = signaled[qi]["fin"]]
    /\ IF signaled[qi]["fin"]
       THEN /\ pc' = Ret(pc, t)
            /\ Pop(t)
            /\ rv' = [rv EXCEPT ![t] = NULL]
       ELSE /\ pc' = [pc EXCEPT ![t] = "get_fin"]
            /\ UNCHANGED <<stk, rv>>
    /\ UNCHANGED <<tq, arg, q, signaled, gvars, hvars, pvars>>

(***************************************************************************)
(* consumer_producer_signal_finished / consumer_producer_wait_finished     *)
(***************************************************************************)
\* signal_finished, line 166: monitor_signal(finished_monitor).
SignalFinished(t) ==
    LET qi == tq[t] IN
    /\ pc[t] = "sf_signal"
    /\ \E ws \in SignalWakes(qi, "fin") :
          /\ signaled' = [signaled EXCEPT ![qi] = monitor_signal(@, "fin")]
          /\ pc' = WakeUp([pc EXCEPT ![t] = "sf_bcast"], ws, "fin")
    /\ UNCHANGED <<stk, tq, arg, rv, isfin, q, lockq, gvars, hvars, pvars>>

\* A signal_finished that also sets not_empty.signaled.
SignalFinishedSetsNotEmpty(t) ==
    LET qi == tq[t] IN
    /\ pc[t] = "sf_bcast"
    /\ \E ws \in BroadcastWakes(qi, "ne") : pc' = WakeUp(Ret(pc, t), ws, "ne")
    /\ signaled' = [signaled EXCEPT ![qi] = monitor_signal(@, "ne")]
    /\ Pop(t)
    /\ UNCHANGED <<tq, arg, rv, isfin, q, lockq, gvars, hvars, pvars>>
\* signal_finished, lines 169-171: broadcast on not_empty's condition
\* without touching not_empty.signaled; return.
SignalFinishedBroadcast(t) ==
    LET qi == tq[t] IN
    /\ pc[t] = "sf_bcast"
    /\ \E ws \in BroadcastWakes(qi, "ne") : pc' = WakeUp(Ret(pc, t), ws, "ne")
    /\ Pop(t)
    /\ UNCHANGED <<tq, arg, rv, isfin, qvars, gvars, hvars, pvars>>

\* wait_finished, line 177: monitor_wait(finished_monitor); return 0.
WaitFinished(t) ==
    /\ pc[t] = "wf_wait"
    /\ IF signaled[tq[t]]["fin"]
       THEN pc' = Ret(pc, t) /\ Pop(t)
       ELSE pc' = [pc EXCEPT ![t] = Blocked("fin")] /\ UNCHANGED stk
    /\ UNCHANGED <<tq, arg, rv, isfin, qvars, gvars, hvars, pvars>>

\* The steps of the queue operations, for thread t.
QueueStep(t) ==
    \/ PutWait(t) \/ PutLock(t) \/ PutNotFull(t) \/ PutNotEmpty(t)
    \/ GetSampleFinished(t) \/ GetSampleEmpty(t) \/ GetWait(t) \/ GetTake(t)
    \/ GetNotEmpty(t) \/ GetNotFull(t) \/ GetRecheck(t)
    \/ SignalFinished(t) \/ SignalFinishedBroadcast(t) \/ WaitFinished(t)

(***************************************************************************)
(* Test threads (consumer_producer_test2.c): producers, consumers and a    *)
(* thread that signals finished, all on queue 0.                           *)
(***************************************************************************)
\* producer_thread, lines 676-679: the next put.
ProducerPut(t) ==
    /\ pc[t] = "prod_loop"
    /\ Call(t, "put_wait", "prod_ret", 0, create_test_string(t, todo[t]))
    /\ mark' = [mark EXCEPT ![t] = IF pc[Finisher] = "off" /\ q[0].count = q[0].capacity
                                   THEN Len(delivered[0]) ELSE -1]
    /\ UNCHANGED <<rv, isfin, qvars, gvars, todo, got, late, ops, pvars>>

\* producer_thread, lines 679-685: stop on a failed put, else count it.
ProducerRet(t) ==
    /\ pc[t] = "prod_ret"
    /\ IF rv[t] # NULL
       THEN pc' = [pc EXCEPT ![t] = "done"] /\ UNCHANGED todo
       ELSE /\ todo' = [todo EXCEPT ![t] = @ - 1]
            /\ pc' = [pc EXCEPT ![t] = IF todo[t] > 1 THEN "prod_loop" ELSE "done"]
    /\ mark' = [mark EXCEPT ![t] = -1]
    /\ UNCHANGED <<stk, tq, arg, rv, isfin, qvars, gvars, got, late, ops, pvars>>

\* consumer_thread, lines 706-707: the next get.
ConsumerGet(t) ==
    /\ pc[t] = "cons_loop"
    /\ Call(t, "get_fin", "cons_ret", 0, NULL)
    /\ late' = [late EXCEPT ![t] = (pc[Finisher] = "done")]
    /\ mark' = [mark EXCEPT ![t] = IF pc[Finisher] = "off" /\ q[0].count = 0
                                   THEN Len(committed[0]) ELSE -1]
    /\ UNCHANGED <<rv, isfin, qvars, gvars, todo, got, ops, pvars>>

\* consumer_thread, lines 709-715: stop on NULL, else store the item.
ConsumerRet(t) ==
    /\ pc[t] = "cons_ret"
    /\ IF rv[t] = NULL
       THEN pc' = [pc EXCEPT ![t] = "done"] /\ UNCHANGED <<todo, got, late, ops>>
       ELSE /\ todo' = [todo EXCEPT ![t] = @ - 1]
            /\ got' = [got EXCEPT ![t] = Append(@, rv[t])]
            /\ pc' = [pc EXCEPT ![t] = IF todo[t] > 1 THEN "cons_loop" ELSE "done"]
            /\ UNCHANGED <<late, ops>>
    /\ mark' = [mark EXCEPT ![t] = -1]
    /\ UNCHANGED <<stk, tq, arg, rv, isfin, qvars, gvars, pvars>>

\* test_finished_signaling, line 651: consumer_producer_signal_finished.
FinisherCall(t) ==
    /\ pc[t] = "fin_start"
    /\ Call(t, "sf_signal", "done", 0, NULL)
    /\ UNCHANGED <<rv, isfin, qvars, gvars, hvars, pvars>>

\* wait_thread_func, line 368: consumer_producer_wait_finished.
WaiterCall(t) ==
    /\ pc[t] = "wait_start"
    /\ Call(t, "wf_wait", "done", 0, NULL)
    /\ UNCHANGED <<rv, isfin, qvars, gvars, hvars, pvars>>

TestStep(t) ==
    \/ ProducerPut(t) \/ ProducerRet(t) \/ ConsumerGet(t) \/ ConsumerRet(t)
    \/ FinisherCall(t) \/ WaiterCall(t)

(***************************************************************************)
(* The queue under test: capacity c, producers P, consumers C.             *)
(***************************************************************************)
StartLabel(t, P, C, W) ==
    CASE t \in P -> "prod_loop"
      [] t \in C -> "cons_loop"
      [] t = Finisher /\ t \in W -> "fin_start"
      [] t = Waiter /\ t \in W -> "wait_start"
      [] OTHER -> "off"

\* Calls each test thread makes.  A producer puts MaxCalls items (one when
\* two producers meet two consumers); a lone consumer gets until it has
\* asked once more than all the items produced (as many times as items are
\* produced when no thread signals finished), one of two consumers
\* MaxCalls times.
ProducerQuota(P, C) == IF Cardinality(P) > 1 /\ Cardinality(C) > 1 THEN 1 ELSE MaxCalls
ConsumerQuota(P, C, W) ==
    IF Cardinality(C) > 1 THEN ProducerQuota(P, C)
    ELSE IF Finisher \in W THEN Cardinality(P) * MaxCalls + 1
    ELSE Cardinality(P) * MaxCalls

InitQueue(P, C, W) ==
    /\ \E c \in 1 .. MaxCap :
          q = [i \in Stages |-> consumer_producer_init(c)]
    /\ lockq = [i \in Stages |-> NoThread]
    /\ signaled = [i \in Stages |-> monitors_init]
    /\ committed = [i \in Stages |-> <<>>]
    /\ delivered = [i \in Stages |-> <<>>]
    /\ heap = HeapInit
    /\ pc = [t \in Threads |-> StartLabel(t, P, C, W)]
    /\ stk = [t \in Threads |-> <<>>]
    /\ tq = [t \in Threads |-> 0]
    /\ arg = [t \in Threads |-> NULL]
    /\ rv = [t \in Threads |-> NULL]
    /\ isfin = [t \in Threads |-> FALSE]
    /\ todo = [t \in Threads |-> IF t \in P THEN ProducerQuota(P, C)
                                 ELSE IF t \in C THEN ConsumerQuota(P, C, W) ELSE 0]
    /\ got = [t \in Threads |-> <<>>]
    /\ late = [t \in Threads |-> FALSE]
    /\ mark = [t \in Threads |-> -1]
    /\ ops = <<>>
    /\ ctx = [i \in Stages |-> [initialized |-> FALSE, finished |-> FALSE, next |-> FALSE]]
    /\ ctxlock = [i \in Stages |-> NoThread]
    /\ xf = [i \in Stages |-> "none"]
    /\ nst = 0
    /\ icount = 0
    /\ qsize = 0
    /\ input = <<>>
    /\ pos = 0
    /\ endrecv = FALSE
    /\ di = 0
    /\ out = <<>>

NextQueue == \E t \in Threads : QueueStep(t) \/ TestStep(t) \/ SpuriousWake(t)

ActiveProducers == {t \in Producers : pc[t] # "off"}
ActiveConsumers == {t \in Consumers : pc[t] # "off"}
SingleConsumer == Cardinality(ActiveConsumers) = 1

\* Spec: no, one or two producers, one or two consumers, the thread
\* signalling finished, and (with one producer and one consumer) a thread in
\* wait_finished.
ProducerSets == {{}, {"p1"}, {"p1", "p2"}}
ConsumerSets == {{"c1"}, {"c1", "c2"}}
WaiterSets(P, C) ==
    IF Cardinality(P) = 1 /\ Cardinality(C) = 1 THEN {{Finisher, Waiter}}
    ELSE {{Finisher}}
NoFinisher == pc[Finisher] = "off"

Init == \E P \in ProducerSets, C \in ConsumerSets : \E W \in WaiterSets(P, C) : InitQueue(P, C, W)
Spec == Init /\ [][NextQueue]_vars

\* FairSpec: the same threads with at most one producer, every thread
\* scheduled again and again (a spurious wakeup is never owed).
InitFair == \E P \in {{}, {"p1"}}, C \in ConsumerSets : \E W \in WaiterSets(P, C) : InitQueue(P, C, W)
TestThreads == Producers \cup Consumers \cup {Finisher, Waiter}
Fairness == \A t \in TestThreads : WF_vars(QueueStep(t) \/ TestStep(t))
FairSpec == InitFair /\ [][NextQueue]_vars /\ Fairness

\* ContentionSpec: one producer and one consumer making MaxCalls calls each
\* on a queue of capacity 1..MaxCap, no thread signalling finished; both
\* threads scheduled again and again.  The re-check of get is left out: no
\* such run reaches it (PipeRecheckUnreached).
InitContention == InitQueue({"p1"}, {"c1"}, {})
ContentionStep(t) ==
    \/ PutWait(t) \/ PutLock(t) \/ PutNotFull(t) \/ PutNotEmpty(t)
    \/ GetSampleFinished(t) \/ GetSampleEmpty(t) \/ GetWait(t) \/ GetTake(t)
    \/ GetNotEmpty(t) \/ GetNotFull(t)
    \/ ProducerPut(t) \/ ProducerRet(t) \/ ConsumerGet(t) \/ ConsumerRet(t)
NextContention == \E t \in Threads : ContentionStep(t) \/ SpuriousWake(t)
ContentionFairness == \A t \in {"p1", "c1"} : WF_vars(ContentionStep(t))
ContentionSpec == InitContention /\ [][NextContention]_vars /\ ContentionFairness

(***************************************************************************)
(* Latch tests (monitor_test.c): the main thread signals and resets the    *)
(* latch m, waiter threads call monitor_wait on it.                        *)
(***************************************************************************)
Latch == signaled[0]["m"]
OpNames == [k \in 1 .. Len(ops) |-> ops[k][1]]
LastOp == IF ops = <<>> THEN "init" ELSE ops[Len(ops)][1]

\* waiter / stress_waiter: the next monitor_wait(&m).
LatchWaiterCall(t) ==
    /\ pc[t] = "lw_loop"
    /\ Call(t, "mw_wait", "lw_ret", 0, NULL)
    /\ UNCHANGED <<rv, isfin, qvars, gvars, hvars, pvars>>

\* A wait that consumes the signal it returns on.
LatchWaitAutoReset(t) ==
    /\ pc[t] = "mw_wait"
    /\ IF Latch
       THEN /\ pc' = Ret(pc, t) /\ Pop(t)
            /\ mark' = [mark EXCEPT ![t] = Len(ops)]
            /\ signaled' = [signaled EXCEPT ![0] = monitor_reset(@, "m")]
       ELSE /\ pc' = [pc EXCEPT ![t] = Blocked("m")]
            /\ UNCHANGED <<stk, mark, signaled>>
    /\ UNCHANGED <<tq, arg, rv, isfin, q, lockq, gvars, todo, got, late, ops, pvars>>
\* monitor_wait, lines 35-46: under m->mutex, block in pthread_cond_wait
\* while signaled is 0; else unlock and return 0.
LatchWait(t) ==
    /\ pc[t] = "mw_wait"
    /\ IF Latch
       THEN /\ pc' = Ret(pc, t) /\ Pop(t)
            /\ mark' = [mark EXCEPT ![t] = Len(ops)]
            /\ UNCHANGED signaled
       ELSE /\ pc' = [pc EXCEPT ![t] = Blocked("m")]
            /\ UNCHANGED <<stk, mark, signaled>>
    /\ UNCHANGED <<tq, arg, rv, isfin, q, lockq, gvars, todo, got, late, ops, pvars>>

\* waiter / stress_waiter: monitor_wait has returned; wait again or exit.
LatchWaiterRet(t) ==
    /\ pc[t] = "lw_ret"
    /\ todo' = [todo EXCEPT ![t] = @ - 1]
    /\ pc' = [pc EXCEPT ![t] = IF todo[t] > 1 THEN "lw_loop" ELSE "done"]
    /\ UNCHANGED <<stk, tq, arg, rv, isfin, qvars, gvars, got, late, mark, ops, pvars>>

\* main of the test: monitor_signal(&m).
LatchSignal(t) ==
    /\ t = Main /\ pc[t] = "lm_loop" /\ Len(ops) < MaxOps
    /\ signaled' = [signaled EXCEPT ![0] = monitor_signal(@, "m")]
    /\ \E ws \in SignalWakes(0, "m") : pc' = WakeUp(pc, ws, "m")
    /\ ops' = Append(ops, <<"signal", IF Latch THEN 0 ELSE Cardinality(Waiters(0, "m"))>>)
    /\ UNCHANGED <<stk, tq, arg, rv, isfin, q, lockq, gvars, todo, got, late, mark, pvars>>

\* main of the test: monitor_reset(&m).
LatchReset(t) ==
    /\ t = Main /\ pc[t] = "lm_loop" /\ Len(ops) < MaxOps
    /\ signaled' = [signaled EXCEPT ![0] = monitor_reset(@, "m")]
    /\ ops' = Append(ops, <<"reset", 0>>)
    /\ UNCHANGED <<tvars, q, lockq, gvars, todo, got, late, mark, pvars>>

LatchStep(t) ==
    \/ LatchWaiterCall(t) \/ LatchWait(t) \/ LatchWaiterRet(t)
    \/ LatchSignal(t) \/ LatchReset(t)

\* After monitor_init(&m): one or two waiter threads about to call
\* monitor_wait, the main thread about to signal or reset.
InitLatch ==
    /\ q = [i \in Stages |-> consumer_producer_init(1)]
    /\ lockq = [i \in Stages |-> NoThread]
    /\ signaled = [i \in Stages |-> monitors_init]
    /\ committed = [i \in Stages |-> <<>>]
    /\ delivered = [i \in Stages |-> <<>>]
    /\ heap = HeapInit
    /\ \E W \in {{"lw1"}, LatchWaiters} :
          /\ pc = [t \in Threads |-> IF t \in W THEN "lw_loop"
                                     ELSE IF t = Main THEN "lm_loop" ELSE "off"]
          /\ todo = [t \in Threads |-> IF t \in W THEN MaxCalls ELSE 0]
    /\ stk = [t \in Threads |-> <<>>]
    /\ tq = [t \in Threads |-> 0]
    /\ arg = [t \in Threads |-> NULL]
    /\ rv = [t \in Threads |-> NULL]
    /\ isfin = [t \in Threads |-> FALSE]
    /\ got = [t \in Threads |-> <<>>]
    /\ late = [t \in Threads |-> FALSE]
    /\ mark = [t \in Threads |-> -1]
    /\ ops = <<>>
    /\ ctx = [i \in Stages |-> [initialized |-> FALSE, finished |-> FALSE, next |-> FALSE]]
    /\ ctxlock = [i \in Stages |-> NoThread]
    /\ xf = [i \in Stages |-> "none"]
    /\ nst = 0
    /\ icount = 0
    /\ qsize = 0
    /\ input = <<>>
    /\ pos = 0
    /\ endrecv = FALSE
    /\ di = 0
    /\ out = <<>>

NextLatch == \E t \in Threads : LatchStep(t) \/ SpuriousWake(t)
\* Every waiter is scheduled again and again; the main thread may stop
\* signalling at any point.
LatchFairness == \A t \in LatchWaiters : WF_vars(LatchStep(t))
LatchSpec == InitLatch /\ [][NextLatch]_vars /\ LatchFairness

(***************************************************************************)
(* Transforms (flipper.c, uppercaser.c).                                   *)
(***************************************************************************)
\* toupper on the characters the model uses.
toupper(ch) == CASE ch = "a" -> "A" [] ch = "b" -> "B" [] OTHER -> ch

\* uppercaser_transform, lines 13-30.
uppercaser_transform(s) == [i \in 1 .. Len(s) |-> toupper(s[i])]

\* flipper_transform, lines 12-30: output[i] = input[len - 1 - i].
flipper_transform(s) == [i \in 1 .. Len(s) |-> s[Len(s) + 1 - i]]

\* ctx->process_function(item) of the stage with transform name k.
process_function(k, s) ==
    IF k = "flipper" THEN flipper_transform(s) ELSE uppercaser_transform(s)

(***************************************************************************)
(* Stage runtime (plugin_common.c).  Stage i owns queue i and context i;   *)
(* its worker is thread Worker(i).                                         *)
(***************************************************************************)
StageOf(t) == CHOOSE i \in Stages : Worker(i) = t

Return(t, v) ==
    /\ pc' = Ret(pc, t)
    /\ Pop(t)
    /\ rv' = [rv EXCEPT ![t] = v]

\* A place_work that puts without looking at the stage's flags.
PlaceWorkNoCheck(t) ==
    /\ pc[t] = "pw_check"
    /\ ctxlock[tq[t]] = NoThread
    /\ pc' = [pc EXCEPT ![t] = "put_wait"]
    /\ stk' = [stk EXCEPT ![t] = <<"pw_afterput">> \o @]
    /\ UNCHANGED <<tq, arg, rv, isfin, qvars, gvars, hvars, pvars>>
\* A place_work that enters put with context_mutex still held.
PlaceWorkHoldsLock(t) ==
    LET s == tq[t] IN
    /\ pc[t] = "pw_check"
    /\ ctxlock[s] = NoThread
    /\ IF arg[t] = NULL THEN Return(t, <<"NULL string provided">>) /\ UNCHANGED ctxlock
       ELSE IF ~ctx[s].initialized THEN Return(t, ErrNotInit) /\ UNCHANGED ctxlock
       ELSE IF ctx[s].finished THEN Return(t, ErrFinished) /\ UNCHANGED ctxlock
       ELSE /\ pc' = [pc EXCEPT ![t] = "put_wait"]
            /\ stk' = [stk EXCEPT ![t] = <<"pw_afterput">> \o @]
            /\ ctxlock' = [ctxlock EXCEPT ![s] = t]
            /\ UNCHANGED rv
    /\ UNCHANGED <<tq, arg, isfin, qvars, gvars, hvars, ctx, xf, nst, icount, qsize, input,
                   pos, endrecv, di, out>>
\* plugin_place_work, lines 167-183: the checks under context_mutex, then
\* consumer_producer_put.
PlaceWorkCheck(t) ==
    LET s == tq[t] IN
    /\ pc[t] = "pw_check"
    /\ ctxlock[s] = NoThread
    /\ IF arg[t] = NULL THEN Return(t, <<"NULL string provided">>)
       ELSE IF ~ctx[s].initialized THEN Return(t, ErrNotInit)
       ELSE IF ctx[s].finished THEN Return(t, ErrFinished)
       ELSE /\ pc' = [pc EXCEPT ![t] = "put_wait"]
            /\ stk' = [stk EXCEPT ![t] = <<"pw_afterput">> \o @]
            /\ UNCHANGED rv
    /\ UNCHANGED <<tq, arg, isfin, qvars, gvars, hvars, pvars>>

\* A place_work that signals finished after every string it has put.
PlaceWorkAlwaysSignals(t) ==
    /\ pc[t] = "pw_afterput"
    /\ IF rv[t] # NULL THEN Return(t, rv[t])
       ELSE pc' = [pc EXCEPT ![t] = "sf_signal"] /\ UNCHANGED <<stk, rv>>
    /\ UNCHANGED <<tq, arg, isfin, qvars, gvars, hvars, pvars>>
\* plugin_place_work, lines 184-193: return put's error; after <END> call
\* consumer_producer_signal_finished; return NULL.
PlaceWorkAfterPut(t) ==
    /\ pc[t] = "pw_afterput"
    /\ IF rv[t] # NULL THEN Return(t, rv[t])
       ELSE IF arg[t] = END
            THEN pc' = [pc EXCEPT ![t] = "sf_signal"] /\ UNCHANGED <<stk, rv>>
            ELSE Return(t, NULL)
    /\ UNCHANGED <<tq, arg, isfin, qvars, gvars, hvars, pvars>>

\* plugin_consumer_thread, line 26: consumer_producer_get(ctx->queue).
WorkerGet(t) ==
    /\ pc[t] = "w_loop"
    /\ Call(t, "get_fin", "w_item", StageOf(t), NULL)
    /\ UNCHANGED <<rv, isfin, qvars, gvars, hvars, pvars>>

ErrNoMemory == <<"process_function returned NULL">>

\* A worker that leaves its loop when the transform returns NULL.
WorkerItemNoMemoryExits(t) ==
    /\ pc[t] = "w_item"
    /\ rv[t] # NULL /\ rv[t] # END
    /\ got' = [got EXCEPT ![t] = Append(@, ErrNoMemory)]
    /\ heap' = [Free(Read(heap, heap.hand[t]), heap.hand[t]) EXCEPT !.hand[t] = NoId]
    /\ pc' = [pc EXCEPT ![t] = "w_exit"]
    /\ UNCHANGED <<stk, tq, arg, rv, isfin, qvars, committed, delivered, todo, late, mark,
                   ops, pvars>>
\* plugin_consumer_thread, lines 43-49, with the malloc of the transform
\* (flipper.c lines 18-21, uppercaser.c lines 18-21) failing: log the error
\* and continue with the next item.
WorkerItemNoMemory(t) ==
    /\ pc[t] = "w_item"
    /\ rv[t] # NULL /\ rv[t] # END
    /\ got' = [got EXCEPT ![t] = Append(@, ErrNoMemory)]
    /\ heap' = [Free(Read(heap, heap.hand[t]), heap.hand[t]) EXCEPT !.hand[t] = NoId]
    /\ pc' = [pc EXCEPT ![t] = "w_loop"]
    /\ UNCHANGED <<stk, tq, arg, rv, isfin, qvars, committed, delivered, todo, late, mark,
                   ops, pvars>>

\* plugin_consumer_thread, lines 53-56 and 62: the downstream place_work has
\* returned; log its error if any, free the transformed string, back to
\* the head of the loop.
WorkerPlaced(t) ==
    /\ pc[t] = "w_placed"
    /\ got' = [got EXCEPT ![t] = IF rv[t] # NULL THEN Append(@, rv[t]) ELSE @]
    /\ heap' = [Free(heap, heap.made[t]) EXCEPT !.made[t] = NoId]
    /\ pc' = [pc EXCEPT ![t] = "w_loop"]
    /\ UNCHANGED <<stk, tq, arg, rv, isfin, qvars, committed, delivered, todo, late, mark,
                   ops, pvars>>

\* plugin_consumer_thread, lines 26-63: leave the loop on NULL; forward
\* <END> and leave; else transform and free the item, then forward, or
\* print and free the transformed string.
WorkerItem(t) ==
    LET s == StageOf(t)
        tr == process_function(xf[s], rv[t])
        item == heap.hand[t]
        \* the heap after strcmp, process_function and free(item)
        h == [Free(Alloc(Read(heap, item), MadeId(s)), item)
                 EXCEPT !.hand[t] = NoId, !.made[t] = MadeId(s)]
    IN
    /\ pc[t] = "w_item"
    /\ IF rv[t] = NULL
       THEN /\ pc' = [pc EXCEPT ![t] = "w_exit"]
            /\ UNCHANGED <<stk, tq, arg, out, heap>>
       ELSE IF rv[t] = END
       THEN /\ heap' = Read(heap, item)
            /\ IF ctx[s].next
               THEN Call(t, "pw_check", "w_exit", s + 1, END) /\ UNCHANGED out
               ELSE /\ pc' = [pc EXCEPT ![t] = "w_exit"]
                    /\ UNCHANGED <<stk, tq, arg, out>>
       ELSE IF tr = NULL
       THEN /\ pc' = [pc EXCEPT ![t] = "w_loop"]
            /\ UNCHANGED <<stk, tq, arg, out, heap>>
       ELSE IF ctx[s].next
       THEN Call(t, "pw_check", "w_placed", s + 1, tr) /\ UNCHANGED out /\ heap' = h
       ELSE /\ out' = Append(out, tr)
            /\ heap' = [Free(Read(h, MadeId(s)), MadeId(s)) EXCEPT !.made[t] = NoId]
            /\ pc' = [pc EXCEPT ![t] = "w_loop"]
            /\ UNCHANGED <<stk, tq, arg>>
    /\ UNCHANGED <<rv, isfin, qvars, committed, delivered, hvars, ctx, ctxlock, xf, nst,
                   icount, qsize, input, pos, endrecv, di>>

\* plugin_consumer_thread, line 37 and lines 65-69: free the <END> item the
\* loop was left with, if any; ctx->finished = 1 under context_mutex.
WorkerExit(t) ==
    LET s == StageOf(t) IN
    /\ pc[t] = "w_exit"
    /\ ctxlock[s] = NoThread
    /\ ctx' = [ctx EXCEPT ![s].finished = TRUE]
    /\ heap' = [Free(heap, heap.hand[t]) EXCEPT !.hand[t] = NoId]
    /\ pc' = [pc EXCEPT ![t] = "w_done"]
    /\ UNCHANGED <<stk, tq, arg, rv, isfin, qvars, committed, delivered, hvars, ctxlock, xf,
                   nst, icount, qsize, input, pos, endrecv, di, out>>

\* plugin_wait_finished, lines 211-221: the check under context_mutex, then
\* consumer_producer_wait_finished.
PluginWaitCheck(t) ==
    LET s == tq[t] IN
    /\ pc[t] = "pwf_check"
    /\ ctxlock[s] = NoThread
    /\ IF ~ctx[s].initialized THEN Return(t, ErrNotInit)
       ELSE /\ pc' = [pc EXCEPT ![t] = "wf_wait"]
            /\ stk' = [stk EXCEPT ![t] = <<"pwf_poll">> \o @]
            /\ UNCHANGED rv
    /\ UNCHANGED <<tq, arg, isfin, qvars, gvars, hvars, pvars>>

\* A wait_finished that returns without polling the worker's finished flag.
PluginWaitNoPoll(t) ==
    /\ pc[t] = "pwf_poll"
    /\ ctxlock[tq[t]] = NoThread
    /\ Return(t, NULL)
    /\ UNCHANGED <<tq, arg, isfin, qvars, gvars, hvars, pvars>>
\* plugin_wait_finished, lines 226-238: poll context.finished under
\* context_mutex, sleeping while it is 0 (a poll that finds 0 changes
\* nothing); return NULL once it is 1.
PluginWaitPoll(t) ==
    LET s == tq[t] IN
    /\ pc[t] = "pwf_poll"
    /\ ctxlock[s] = NoThread
    /\ ctx[s].finished
    /\ Return(t, NULL)
    /\ UNCHANGED <<tq, arg, isfin, qvars, gvars, hvars, pvars>>

\* plugin_fini, lines 138-146: the check, then
\* consumer_producer_signal_finished with context_mutex held.
PluginFiniCheck(t) ==
    LET s == tq[t] IN
    /\ pc[t] = "pf_check"
    /\ ctxlock[s] = NoThread
    /\ IF ~ctx[s].initialized
       THEN Return(t, ErrNotInit) /\ UNCHANGED ctxlock
       ELSE /\ ctxlock' = [ctxlock EXCEPT ![s] = t]
            /\ pc' = [pc EXCEPT ![t] = "sf_signal"]
            /\ stk' = [stk EXCEPT ![t] = <<"pf_unlock">> \o @]
            /\ UNCHANGED rv
    /\ UNCHANGED <<tq, arg, isfin, qvars, gvars, hvars, ctx, xf, nst, icount, qsize, input,
                   pos, endrecv, di, out>>

\* plugin_fini, line 147: unlock context_mutex.
PluginFiniUnlock(t) ==
    /\ pc[t] = "pf_unlock"
    /\ ctxlock' = [ctxlock EXCEPT ![tq[t]] = NoThread]
    /\ pc' = [pc EXCEPT ![t] = "pf_join"]
    /\ UNCHANGED <<stk, tq, arg, rv, isfin, qvars, gvars, hvars, ctx, xf, nst, icount, qsize,
                   input, pos, endrecv, di, out>>

\* A fini that does not join the worker.
PluginFiniNoJoin(t) ==
    /\ pc[t] = "pf_join"
    /\ pc' = [pc EXCEPT ![t] = "pf_destroy"]
    /\ UNCHANGED <<stk, tq, arg, rv, isfin, qvars, gvars, hvars, pvars>>
\* plugin_fini, line 149: pthread_join(context.consumer_thread).
PluginFiniJoin(t) ==
    /\ pc[t] = "pf_join"
    /\ pc[Worker(tq[t])] = "w_done"
    /\ pc' = [pc EXCEPT ![t] = "pf_destroy"]
    /\ UNCHANGED <<stk, tq, arg, rv, isfin, qvars, gvars, hvars, pvars>>

\* consumer_producer_destroy, lines 38-57: free the counted slots and the
\* array, zero the dimensions.
consumer_producer_destroy(qr) ==
    [items |-> [i \in {} |-> NULL], capacity |-> 0, count |-> 0, head |-> 0, tail |-> 0]

\* plugin_fini, lines 152-163: destroy the queue and reset the context.
PluginFiniDestroy(t) ==
    LET s == tq[t] IN
    /\ pc[t] = "pf_destroy"
    /\ ctxlock[s] = NoThread
    /\ q' = [q EXCEPT ![s] = consumer_producer_destroy(q[s])]
    /\ heap' = DestroyFrees(heap, s, q[s])
    /\ ctx' = [ctx EXCEPT ![s] = [initialized |-> FALSE, finished |-> FALSE, next |-> FALSE]]
    /\ Return(t, NULL)
    /\ UNCHANGED <<tq, arg, isfin, lockq, signaled, committed, delivered, hvars, ctxlock, xf,
                   nst, icount, qsize, input, pos, endrecv, di, out>>

StageStep(t) ==
    \/ PlaceWorkCheck(t) \/ PlaceWorkAfterPut(t)
    \/ WorkerGet(t) \/ WorkerItem(t) \/ WorkerExit(t)
    \/ PluginWaitCheck(t) \/ PluginWaitPoll(t)
    \/ PluginFiniCheck(t) \/ PluginFiniUnlock(t) \/ PluginFiniJoin(t)
    \/ PluginFiniDestroy(t)
\* The steps of the stages of a pipeline, where a stage may have a next one.
LinkedStageStep(t) == StageStep(t) \/ WorkerPlaced(t)

(***************************************************************************)
(* Pipeline driver (main.c), from step 3 on.                               *)
(***************************************************************************)
\* The payload lines standard input may hold.
Lines == {<<"a", "b">>, <<">", "D", "N", "E", "<">>}

\* main, lines 343-353, and common_plugin_init, lines 109-131: initialize
\* stage di: fresh context and queue, worker started; initialized_count++.
DriverInit(t) ==
    /\ pc[t] = "d_init"
    /\ ctxlock[di] = NoThread
    /\ ctx' = [ctx EXCEPT ![di] = [initialized |-> TRUE, finished |-> FALSE, next |-> FALSE]]
    /\ q' = [q EXCEPT ![di] = consumer_producer_init(qsize)]
    /\ signaled' = [signaled EXCEPT ![di] = monitors_init]
    /\ pc' = [pc EXCEPT ![Worker(di)] = "w_loop",
                        ![t] = IF di + 1 < nst THEN "d_init" ELSE "d_attach"]
    /\ di' = IF di + 1 < nst THEN di + 1 ELSE 0
    /\ icount' = icount + 1
    /\ UNCHANGED <<stk, tq, arg, rv, isfin, lockq, gvars, hvars, ctxlock, xf, nst,
                   qsize, input, pos, endrecv, out>>

\* A driver that attaches no stage to the next one.
DriverAttachNone(t) ==
    /\ pc[t] = "d_attach"
    /\ ctxlock[di] = NoThread
    /\ pc' = [pc EXCEPT ![t] = IF di + 1 < nst THEN "d_attach" ELSE "d_read"]
    /\ di' = IF di + 1 < nst THEN di + 1 ELSE 0
    /\ UNCHANGED <<stk, tq, arg, rv, isfin, qvars, gvars, hvars, ctx, ctxlock, xf, nst,
                   icount, qsize, input, pos, endrecv, out>>
\* main, lines 356-363, and plugin_attach, lines 198-206: stage di's
\* downstream is stage di + 1's place_work, the last stage's is NULL.
DriverAttach(t) ==
    /\ pc[t] = "d_attach"
    /\ ctxlock[di] = NoThread
    /\ ctx' = [ctx EXCEPT ![di].next = (di < nst - 1)]
    /\ pc' = [pc EXCEPT ![t] = IF di + 1 < nst THEN "d_attach" ELSE "d_read"]
    /\ di' = IF di + 1 < nst THEN di + 1 ELSE 0
    /\ UNCHANGED <<stk, tq, arg, rv, isfin, qvars, gvars, hvars, ctxlock, xf, nst, icount,
                   qsize, input, pos, endrecv, out>>

\* main, lines 369-377: fgets returns a line (of an input of at most n
\* lines); place it into stage 0.
DriverReadLine(t, n) ==
    /\ pc[t] = "d_read"
    /\ Len(input) < n
    /\ \E line \in Lines \cup {END} :
          /\ input' = Append(input, line)
          /\ Call(t, "pw_check", "d_placed", 0, line)
    /\ pos' = pos + 1
    /\ UNCHANGED <<rv, isfin, qvars, gvars, hvars, ctx, ctxlock, xf, nst, icount, qsize,
                   endrecv, di, out>>

DriverRead(t) == DriverReadLine(t, MaxInput)

\* main, lines 378-387: after place_work, stop reading if the line was <END>.
DriverPlaced(t) ==
    /\ pc[t] = "d_placed"
    /\ endrecv' = (arg[t] = END)
    /\ pc' = [pc EXCEPT ![t] = IF arg[t] = END THEN "d_wait" ELSE "d_read"]
    /\ UNCHANGED <<stk, tq, arg, rv, isfin, qvars, gvars, hvars, ctx, ctxlock, xf,
                   nst, icount, qsize, input, pos, di, out>>

\* main, lines 369 and 391-396: fgets returns NULL; without <END> received,
\* place a synthesized <END>.
DriverEof(t) ==
    /\ pc[t] = "d_read"
    /\ IF ~endrecv
       THEN Call(t, "pw_check", "d_wait", 0, END)
       ELSE /\ pc' = [pc EXCEPT ![t] = "d_wait"]
            /\ UNCHANGED <<stk, tq, arg>>
    /\ UNCHANGED <<rv, isfin, qvars, gvars, hvars, pvars>>

\* A driver that waits for the first stage only.
DriverWaitFirstOnly(t) ==
    /\ pc[t] = "d_wait"
    /\ IF di < 1
       THEN /\ Call(t, "pwf_check", "d_wait", di, arg[t])
            /\ di' = di + 1
            /\ ops' = Append(ops, <<"wait_finished", di>>)
       ELSE /\ pc' = [pc EXCEPT ![t] = "d_fini"]
            /\ di' = 0
            /\ UNCHANGED <<stk, tq, arg, ops>>
    /\ UNCHANGED <<rv, isfin, qvars, gvars, todo, got, late, mark, ctx, ctxlock, xf,
                   nst, icount, qsize, input, pos, endrecv, out>>
\* main, lines 400-407: wait_finished on every stage in ascending order.
DriverWait(t) ==
    /\ pc[t] = "d_wait"
    /\ IF di < nst
       THEN /\ Call(t, "pwf_check", "d_wait", di, arg[t])
            /\ di' = di + 1
            /\ ops' = Append(ops, <<"wait_finished", di>>)
       ELSE /\ pc' = [pc EXCEPT ![t] = "d_fini"]
            /\ di' = 0
            /\ UNCHANGED <<stk, tq, arg, ops>>
    /\ UNCHANGED <<rv, isfin, qvars, gvars, todo, got, late, mark, ctx, ctxlock, xf,
                   nst, icount, qsize, input, pos, endrecv, out>>

\* main, line 414, cleanup_plugins, lines 71-79, and main, line 417: fini on
\* the initialized_count stages in ascending order, then the completion
\* notice.
DriverFini(t) ==
    /\ pc[t] = "d_fini"
    /\ IF di < icount
       THEN /\ Call(t, "pf_check", "d_fini", di, arg[t])
            /\ di' = di + 1
            /\ ops' = Append(ops, <<"fini", di>>)
       ELSE /\ pc' = [pc EXCEPT ![t] = "d_done"]
            /\ di' = di
            /\ UNCHANGED <<stk, tq, arg, ops>>
    /\ UNCHANGED <<rv, isfin, qvars, gvars, todo, got, late, mark, ctx, ctxlock, xf,
                   nst, icount, qsize, input, pos, endrecv, out>>

\* main, lines 344-350, with the init of stage di failing (the queue's
\* malloc or mutex, or pthread_create: common_plugin_init, lines 116-129):
\* the stage is left uninitialized without queue or worker, and main goes
\* to cleanup_plugins(loaded_count, initialized_count).
DriverInitFails(t) ==
    /\ pc[t] = "d_init"
    /\ ctxlock[di] = NoThread
    /\ pc' = [pc EXCEPT ![t] = "d_unwind"]
    /\ di' = 0
    /\ UNCHANGED <<stk, tq, arg, rv, isfin, qvars, gvars, hvars, ctx, ctxlock, xf,
                   nst, icount, qsize, input, pos, endrecv, out>>

\* cleanup_plugins, lines 71-79, and main, line 350: fini on the
\* initialized_count stages in ascending order, then return 2.
DriverUnwind(t) ==
    /\ pc[t] = "d_unwind"
    /\ IF di < icount
       THEN /\ Call(t, "pf_check", "d_unwind", di, arg[t])
            /\ di' = di + 1
            /\ ops' = Append(ops, <<"fini", di>>)
       ELSE /\ pc' = [pc EXCEPT ![t] = "d_exit2"]
            /\ di' = di
            /\ UNCHANGED <<stk, tq, arg, ops>>
    /\ UNCHANGED <<rv, isfin, qvars, gvars, todo, got, late, mark, ctx, ctxlock, xf,
                   nst, icount, qsize, input, pos, endrecv, out>>

DriverStep(t) ==
    \/ DriverInit(t) \/ DriverAttach(t) \/ DriverRead(t) \/ DriverPlaced(t)
    \/ DriverEof(t) \/ DriverWait(t) \/ DriverFini(t)

\* The stage lists of the pipelines modelled.
Pipelines == {<<"flipper">>, <<"uppercaser", "flipper">>, <<"flipper", "uppercaser">>}

\* The state when main reaches step 3: plugins loaded, none initialized
\* (static contexts and queues zeroed).
InitPipe ==
    /\ \E pl \in Pipelines :
          /\ Len(pl) <= MaxStages
          /\ nst = Len(pl)
          /\ xf = [i \in Stages |-> IF i < Len(pl) THEN pl[i + 1] ELSE "none"]
    /\ icount = 0
    /\ qsize \in 1 .. PipeCap
    /\ q = [i \in Stages |-> consumer_producer_destroy(0)]
    /\ lockq = [i \in Stages |-> NoThread]
    /\ signaled = [i \in Stages |-> [m \in Mon |-> FALSE]]
    /\ committed = [i \in Stages |-> <<>>]
    /\ delivered = [i \in Stages |-> <<>>]
    /\ heap = HeapInit
    /\ pc = [t \in Threads |-> IF t = Main THEN "d_init"
                               ELSE IF t \in Workers THEN "w_idle" ELSE "off"]
    /\ stk = [t \in Threads |-> <<>>]
    /\ tq = [t \in Threads |-> 0]
    /\ arg = [t \in Threads |-> NULL]
    /\ rv = [t \in Threads |-> NULL]
    /\ isfin = [t \in Threads |-> FALSE]
    /\ todo = [t \in Threads |-> 0]
    /\ got = [t \in Threads |-> <<>>]
    /\ late = [t \in Threads |-> FALSE]
    /\ mark = [t \in Threads |-> -1]
    /\ ops = <<>>
    /\ ctx = [i \in Stages |-> [initialized |-> FALSE, finished |-> FALSE, next |-> FALSE]]
    /\ ctxlock = [i \in Stages |-> NoThread]
    /\ input = <<>>
    /\ pos = 0
    /\ endrecv = FALSE
    /\ di = 0
    /\ out = <<>>

\* The steps of the queue operations a pipeline thread takes.  The re-check
\* of get (GetRecheck) is left out: no pipeline run reaches it
\* (PipeRecheckUnreached).
PipeQueueStep(t) ==
    \/ PutWait(t) \/ PutLock(t) \/ PutNotFull(t) \/ PutNotEmpty(t)
    \/ GetSampleFinished(t) \/ GetSampleEmpty(t) \/ GetWait(t) \/ GetTake(t)
    \/ GetNotEmpty(t) \/ GetNotFull(t)
    \/ SignalFinished(t) \/ SignalFinishedBroadcast(t) \/ WaitFinished(t)

ThreadStep(t) == PipeQueueStep(t) \/ LinkedStageStep(t) \/ DriverStep(t)
NextPipe == \E t \in Threads : ThreadStep(t) \/ SpuriousWake(t)

\* Every thread is scheduled again and again; the driver's read of standard
\* input returns (a line or end of file).
PipeFairness == \A t \in {Main} \cup Workers : WF_vars(ThreadStep(t))
PipeSpec == InitPipe /\ [][NextPipe]_vars /\ PipeFairness

\* FaultSpec: the pipelines that start with flipper, queue_size 1, an input
\* of at most MaxFeed lines, run with resource failures: the init of a
\* stage may fail, and so may the malloc of a transform.
InitFault == InitPipe /\ xf[0] = "flipper" /\ qsize = 1
FaultStep(t) ==
    \/ PipeQueueStep(t) \/ LinkedStageStep(t)
    \/ DriverInit(t) \/ DriverAttach(t) \/ DriverReadLine(t, MaxFeed)
    \/ DriverPlaced(t) \/ DriverEof(t) \/ DriverWait(t) \/ DriverFini(t)
NextFault ==
    \E t \in Threads :
        \/ FaultStep(t) \/ SpuriousWake(t)
        \/ DriverInitFails(t) \/ DriverUnwind(t) \/ WorkerItemNoMemory(t)
\* Every thread is scheduled again and again; a failure is never owed.
FaultFairness == \A t \in {Main} \cup Workers : WF_vars(FaultStep(t) \/ DriverUnwind(t))
FaultSpec == InitFault /\ [][NextFault]_vars /\ FaultFairness

\* FeedSpec: flipper feeding uppercaser, queue_size 1, an input of at most
\* LongFeed lines, no failure.
InitFeed == InitPipe /\ nst = 2 /\ xf[0] = "flipper" /\ qsize = 1
FeedStep(t) ==
    \/ PipeQueueStep(t) \/ LinkedStageStep(t)
    \/ DriverInit(t) \/ DriverAttach(t) \/ DriverReadLine(t, LongFeed)
    \/ DriverPlaced(t) \/ DriverEof(t) \/ DriverWait(t) \/ DriverFini(t)
NextFeed == \E t \in Threads : FeedStep(t) \/ SpuriousWake(t)
FeedFairness == \A t \in {Main} \cup Workers : WF_vars(FeedStep(t))
FeedSpec == InitFeed /\ [][NextFeed]_vars /\ FeedFairness

(***************************************************************************)
(* One stage driven through its interface (plugin_common.c): a client      *)
(* thread calls init, place_work, wait_finished and fini on stage 0 in any *)
(* order.                                                                  *)
(***************************************************************************)
\* An init that does not look at the initialized flag.
PluginInitNoCheck(t) ==
    LET s == tq[t] IN
    /\ pc[t] = "pi_check"
    /\ ctxlock[s] = NoThread
    /\ ctx' = [ctx EXCEPT ![s] = [initialized |-> TRUE, finished |-> FALSE, next |-> FALSE]]
    /\ q' = [q EXCEPT ![s] = consumer_producer_init(qsize)]
    /\ signaled' = [signaled EXCEPT ![s] = monitors_init]
    /\ pc' = [Ret(pc, t) EXCEPT ![Worker(s)] = "w_loop"]
    /\ Pop(t)
    /\ rv' = [rv EXCEPT ![t] = NULL]
    /\ UNCHANGED <<tq, arg, isfin, lockq, gvars, hvars, ctxlock, xf, nst, icount, qsize,
                   input, pos, endrecv, di, out>>
\* common_plugin_init, lines 98-134: reject bad arguments and a second
\* init; else fresh context and queue, worker started.
PluginInit(t) ==
    LET s == tq[t] IN
    /\ pc[t] = "pi_check"
    /\ ctxlock[s] = NoThread
    /\ IF qsize <= 0
       THEN Return(t, ErrInitArgs) /\ UNCHANGED <<ctx, q, signaled>>
       ELSE IF ctx[s].initialized
       THEN Return(t, ErrAlreadyInit) /\ UNCHANGED <<ctx, q, signaled>>
       ELSE /\ ctx' = [ctx EXCEPT ![s] = [initialized |-> TRUE, finished |-> FALSE,
                                          next |-> FALSE]]
            /\ q' = [q EXCEPT ![s] = consumer_producer_init(qsize)]
            /\ signaled' = [signaled EXCEPT ![s] = monitors_init]
            /\ pc' = [Ret(pc, t) EXCEPT ![Worker(s)] = "w_loop"]
            /\ Pop(t)
            /\ rv' = [rv EXCEPT ![t] = NULL]
    /\ UNCHANGED <<tq, arg, isfin, lockq, gvars, hvars, ctxlock, xf, nst, icount, qsize,
                   input, pos, endrecv, di, out>>

\* The strings the client places.
ClientLines == {<<"a", "b">>, END}

\* The client's next call.
ClientCall(t) ==
    /\ pc[t] = "cl_loop"
    /\ \/ Call(t, "pi_check", "cl_ret", 0, NULL)
       \/ \E l \in ClientLines : Call(t, "pw_check", "cl_ret", 0, l)
       \/ Call(t, "pwf_check", "cl_ret", 0, NULL)
       \/ Call(t, "pf_check", "cl_ret", 0, NULL)
    /\ UNCHANGED <<rv, isfin, qvars, gvars, hvars, pvars>>

\* The call has returned: note its result; call again or stop.
ClientRet(t) ==
    /\ pc[t] = "cl_ret"
    /\ got' = [got EXCEPT ![t] = Append(@, rv[t])]
    /\ todo' = [todo EXCEPT ![t] = @ - 1]
    /\ pc' = [pc EXCEPT ![t] = IF todo[t] > 1 THEN "cl_loop" ELSE "done"]
    /\ UNCHANGED <<stk, tq, arg, rv, isfin, qvars, gvars, late, mark, ops, pvars>>

ClientStep(t) == PluginInit(t) \/ ClientCall(t) \/ ClientRet(t)

\* The stage as loaded: static context and queue zeroed, no worker.
InitApi ==
    /\ nst = 1
    /\ icount = 0
    /\ xf = [i \in Stages |-> IF i = 0 THEN "uppercaser" ELSE "none"]
    /\ qsize \in 1 .. PipeCap
    /\ q = [i \in Stages |-> consumer_producer_destroy(0)]
    /\ lockq = [i \in Stages |-> NoThread]
    /\ signaled = [i \in Stages |-> [m \in Mon |-> FALSE]]
    /\ committed = [i \in Stages |-> <<>>]
    /\ delivered = [i \in Stages |-> <<>>]
    /\ heap = HeapInit
    /\ pc = [t \in Threads |-> IF t = Main THEN "cl_loop"
                               ELSE IF t \in Workers THEN "w_idle" ELSE "off"]
    /\ stk = [t \in Threads |-> <<>>]
    /\ tq = [t \in Threads |-> 0]
    /\ arg = [t \in Threads |-> NULL]
    /\ rv = [t \in Threads |-> NULL]
    /\ isfin = [t \in Threads |-> FALSE]
    /\ todo = [t \in Threads |-> IF t = Main THEN MaxApi ELSE 0]
    /\ got = [t \in Threads |-> <<>>]
    /\ late = [t \in Threads |-> FALSE]
    /\ mark = [t \in Threads |-> -1]
    /\ ops = <<>>
    /\ ctx = [i \in Stages |-> [initialized |-> FALSE, finished |-> FALSE, next |-> FALSE]]
    /\ ctxlock = [i \in Stages |-> NoThread]
    /\ input = <<>>
    /\ pos = 0
    /\ endrecv = FALSE
    /\ di = 0
    /\ out = <<>>

ApiThreadStep(t) == PipeQueueStep(t) \/ StageStep(t) \/ ClientStep(t)
NextApi == \E t \in Threads : ApiThreadStep(t) \/ SpuriousWake(t)
ApiFairness == \A t \in {Main} \cup Workers : WF_vars(ApiThreadStep(t))
ApiSpec == InitApi /\ [][NextApi]_vars /\ ApiFairness

(***************************************************************************)
(* The queue driven through its interface by one thread                    *)
(* (consumer_producer_test2.c, monitor_test.c): init, put, get,            *)
(* signal_finished, wait_finished and destroy on the queue &queue (queue   *)
(* 0) or on a null pointer, and the latch functions on a null pointer.     *)
(***************************************************************************)
\* An argument test that lets capacity 0 through.
InitArgsInvalidNegative(ref, c) == ref = NoQueue \/ c < 0
\* consumer_producer_init, line 10.
InitArgsInvalid(ref, c) == ref = NoQueue \/ c <= 0

\* An argument test that does not look at the item.
PutArgsInvalidQueueOnly(ref, item) == ref = NoQueue
\* consumer_producer_put, line 62.
PutArgsInvalid(ref, item) == ref = NoQueue \/ item = NULL

\* The capacities passed to init.
CapArgs == -1 .. MaxCap

\* The latches and the mutex of the queue are initialized and not destroyed.
Live(qi) == q[qi].capacity > 0

\* consumer_producer_init, lines 10-32, with the capacity the client passes
\* (held in qsize, as main's queue size is).
QueueInit(t) ==
    /\ pc[t] = "qi_check"
    /\ IF InitArgsInvalid(tq[t], qsize)
       THEN Return(t, ErrInvalid) /\ UNCHANGED <<q, signaled>>
       ELSE /\ q' = [q EXCEPT ![tq[t]] = consumer_producer_init(qsize)]
            /\ signaled' = [signaled EXCEPT ![tq[t]] =
                                [m \in Mon |-> IF m = "m" THEN @[m] ELSE monitors_init[m]]]
            /\ Return(t, NULL)
    /\ UNCHANGED <<tq, arg, isfin, lockq, gvars, hvars, pvars>>

\* consumer_producer_destroy, lines 36-57: nothing on a null pointer; else
\* free the slots, destroy the latches and the mutex (their signaled flags
\* stay as they are), zero the dimensions.
QueueDestroy(t) ==
    /\ pc[t] = "qd_check"
    /\ IF tq[t] = NoQueue
       THEN UNCHANGED <<q, heap>>
       ELSE /\ q' = [q EXCEPT ![tq[t]] = consumer_producer_destroy(@)]
            /\ heap' = DestroyFrees(heap, tq[t], q[tq[t]])
    /\ pc' = Ret(pc, t)
    /\ Pop(t)
    /\ UNCHANGED <<tq, arg, rv, isfin, lockq, signaled, committed, delivered, hvars, pvars>>

\* consumer_producer_put, line 62.
QueuePutCheck(t) ==
    /\ pc[t] = "put_check"
    /\ IF PutArgsInvalid(tq[t], arg[t])
       THEN Return(t, ErrInvalid)
       ELSE pc' = [pc EXCEPT ![t] = "put_wait"] /\ UNCHANGED <<stk, rv>>
    /\ UNCHANGED <<tq, arg, isfin, qvars, gvars, hvars, pvars>>

\* consumer_producer_get, line 101.
QueueGetCheck(t) ==
    /\ pc[t] = "get_check"
    /\ IF tq[t] = NoQueue
       THEN Return(t, NULL)
       ELSE pc' = [pc EXCEPT ![t] = "get_fin"] /\ UNCHANGED <<stk, rv>>
    /\ UNCHANGED <<tq, arg, isfin, qvars, gvars, hvars, pvars>>

\* consumer_producer_signal_finished, line 165.
QueueSignalFinishedCheck(t) ==
    /\ pc[t] = "sf_check"
    /\ IF tq[t] = NoQueue
       THEN pc' = Ret(pc, t) /\ Pop(t)
       ELSE pc' = [pc EXCEPT ![t] = "sf_signal"] /\ UNCHANGED stk
    /\ UNCHANGED <<tq, arg, rv, isfin, qvars, gvars, hvars, pvars>>

\* consumer_producer_wait_finished, line 176.
QueueWaitFinishedCheck(t) ==
    /\ pc[t] = "wf_check"
    /\ IF tq[t] = NoQueue
       THEN Return(t, RcFail)
       ELSE pc' = [pc EXCEPT ![t] = "wf_wait"] /\ UNCHANGED <<stk, rv>>
    /\ UNCHANGED <<tq, arg, isfin, qvars, gvars, hvars, pvars>>

\* monitor_signal, line 19, monitor_reset, line 27, monitor_destroy, line 49,
\* called with a null pointer: return.
LatchNullCall(t) ==
    /\ pc[t] \in {"ms_check", "mr_check", "md_check"}
    /\ tq[t] = NoQueue
    /\ pc' = Ret(pc, t)
    /\ Pop(t)
    /\ UNCHANGED <<tq, arg, rv, isfin, qvars, gvars, hvars, pvars>>

\* monitor_wait, line 34, called with a null pointer: return -1.
LatchNullWait(t) ==
    /\ pc[t] = "mw_check"
    /\ tq[t] = NoQueue
    /\ Return(t, RcFail)
    /\ UNCHANGED <<tq, arg, isfin, qvars, gvars, hvars, pvars>>

\* monitor_wait, lines 35-36 and 42-45, on a latch of a destroyed queue:
\* locking a destroyed mutex is undefined; where pthread_mutex_lock reports
\* an error, monitor_wait returns -1 (where it locks, the wait goes on as
\* on a live latch: PutWait, GetWait, WaitFinished).  put, lines 64-66:
\* return "Monitor wait failed".
PutWaitFails(t) ==
    /\ pc[t] = "put_wait"
    /\ ~Live(tq[t])
    /\ Return(t, ErrMonitorWait)
    /\ UNCHANGED <<tq, arg, isfin, qvars, gvars, hvars, pvars>>

\* get, lines 119-121: monitor_wait failed, return NULL.
GetWaitFails(t) ==
    /\ pc[t] = "get_wait"
    /\ ~Live(tq[t])
    /\ Return(t, NULL)
    /\ UNCHANGED <<tq, arg, isfin, qvars, gvars, hvars, pvars>>

\* wait_finished, line 177: monitor_wait failed, return -1.
WaitFinishedFails(t) ==
    /\ pc[t] = "wf_wait"
    /\ ~Live(tq[t])
    /\ Return(t, RcFail)
    /\ UNCHANGED <<tq, arg, isfin, qvars, gvars, hvars, pvars>>

\* The strings the client puts, and the null string.
QueueItems == {<<"a", "b">>, NULL}

\* The client's next call, on &queue or on a null pointer (the latch
\* functions on a null pointer only); ops holds the name of this call.
QueueClientCall(t) ==
    /\ pc[t] = "qc_loop"
    /\ \E ref \in {0, NoQueue} :
          \/ /\ \E c \in CapArgs : qsize' = c
             /\ Call(t, "qi_check", "qc_ret", ref, NULL)
             /\ ops' = <<<<"init", 0>>>>
          \/ /\ \E item \in QueueItems : Call(t, "put_check", "qc_ret", ref, item)
             /\ ops' = <<<<"put", 0>>>>
             /\ UNCHANGED qsize
          \/ /\ \E l \in {"get_check", "sf_check", "wf_check", "qd_check"} :
                    Call(t, l, "qc_ret", ref, NULL) /\ ops' = <<<<l, 0>>>>
             /\ UNCHANGED qsize
          \/ /\ ref = NoQueue
             /\ \E l \in {"ms_check", "mr_check", "md_check", "mw_check"} :
                    Call(t, l, "qc_ret", ref, NULL) /\ ops' = <<<<l, 0>>>>
             /\ UNCHANGED qsize
    /\ UNCHANGED <<rv, isfin, qvars, gvars, todo, got, late, mark,
                   ctx, ctxlock, xf, nst, icount, input, pos, endrecv, di, out>>

\* The call has returned: count it; call again or stop.
QueueClientRet(t) ==
    /\ pc[t] = "qc_ret"
    /\ todo' = [todo EXCEPT ![t] = @ - 1]
    /\ pc' = [pc EXCEPT ![t] = IF todo[t] > 1 THEN "qc_loop" ELSE "done"]
    /\ UNCHANGED <<stk, tq, arg, rv, isfin, qvars, gvars, got, late, mark, ops, pvars>>

QueueClientStep(t) ==
    \/ QueueClientCall(t) \/ QueueClientRet(t)
    \/ QueueInit(t) \/ QueueDestroy(t)
    \/ QueuePutCheck(t) \/ QueueGetCheck(t)
    \/ QueueSignalFinishedCheck(t) \/ QueueWaitFinishedCheck(t)
    \/ LatchNullCall(t) \/ LatchNullWait(t)
    \/ PutWaitFails(t) \/ GetWaitFails(t) \/ WaitFinishedFails(t)

\* The client after its first init of &queue, with a capacity of 1 or more.
InitQueueApi ==
    /\ qsize \in 1 .. MaxCap
    /\ q = [i \in Stages |-> IF i = 0 THEN consumer_producer_init(qsize)
                                       ELSE consumer_producer_destroy(0)]
    /\ lockq = [i \in Stages |-> NoThread]
    /\ signaled = [i \in Stages |-> [m \in Mon |-> i = 0 /\ monitors_init[m]]]
    /\ committed = [i \in Stages |-> <<>>]
    /\ delivered = [i \in Stages |-> <<>>]
    /\ heap = HeapInit
    /\ pc = [t \in Threads |-> IF t = Main THEN "qc_loop" ELSE "off"]
    /\ stk = [t \in Threads |-> <<>>]
    /\ tq = [t \in Threads |-> 0]
    /\ arg = [t \in Threads |-> NULL]
    /\ rv = [t \in Threads |-> NULL]
    /\ isfin = [t \in Threads |-> FALSE]
    /\ todo = [t \in Threads |-> IF t = Main THEN MaxQueueCalls ELSE 0]
    /\ got = [t \in Threads |-> <<>>]
    /\ late = [t \in Threads |-> FALSE]
    /\ mark = [t \in Threads |-> -1]
    /\ ops = <<>>
    /\ ctx = [i \in Stages |-> [initialized |-> FALSE, finished |-> FALSE, next |-> FALSE]]
    /\ ctxlock = [i \in Stages |-> NoThread]
    /\ xf = [i \in Stages |-> "none"]
    /\ nst = 0
    /\ icount = 0
    /\ input = <<>>
    /\ pos = 0
    /\ endrecv = FALSE
    /\ di = 0
    /\ out = <<>>

NextQueueApi == \E t \in Threads : QueueStep(t) \/ QueueClientStep(t) \/ SpuriousWake(t)
\* The client is scheduled again and again.
QueueApiFairness == WF_vars(QueueStep(Main) \/ QueueClientStep(Main))
QueueApiSpec == InitQueueApi /\ [][NextQueueApi]_vars /\ QueueApiFairness

(***************************************************************************)
(* Claims about the bounded queue (queue 0 under the test threads).        *)
(***************************************************************************)
Q0 == q[0]
GetLabels == {"get_fin", "get_empty", "get_wait", "get_blocked", "get_take",
              "get_ne", "get_nf", "get_fin2"}
InGet(t) == pc[t] \in GetLabels
Range(s) == {s[i] : i \in 1 .. Len(s)}
NoPutToCome == \A p \in Producers : pc[p] \in {"off", "done"}

\* C4: no lost FINISHED.  A single consumer that is inside get on an empty
\* queue, having sampled FINISHED as unsignaled (it is about to wait, or is
\* waiting, on NOT_EMPTY), with FINISHED signaled since and no put to come,
\* eventually returns from get with the absent value.
C4_NoLostFinished ==
    \A c \in Consumers :
        (/\ SingleConsumer
         /\ pc[c] \in {"get_empty", "get_wait", "get_blocked"}
         /\ ~isfin[c]
         /\ Q0.count = 0
         /\ NoPutToCome
         /\ signaled[0]["fin"])
        ~> (pc[c] \in {"cons_ret", "done"} /\ rv[c] = NULL)

\* C5: no lost wakeup, single consumer.  With one consumer, a get invoked
\* after signal_finished has returned terminates, and it returns the absent
\* value only from a queue it found empty.
LateGetReturnsNull(c) ==
    /\ late[c] /\ InGet(c)
    /\ pc'[c] = "cons_ret" /\ rv'[c] = NULL
C5_LateGetTerminates ==
    /\ (SingleConsumer /\ late["c1"] /\ InGet("c1")) ~> ~InGet("c1")
    /\ [][(SingleConsumer /\ LateGetReturnsNull("c1")) => Q0.count = 0]_vars
C5_Witness ==
    /\ SingleConsumer /\ late["c1"] /\ pc["c1"] = "cons_ret"
    /\ rv["c1"] # NULL /\ Len(got["c1"]) > 0

\* C6: with two or more consumers, a get invoked after signal_finished has
\* returned terminates.
C6_LateGetTerminatesMulti ==
    \A c \in Consumers : (~SingleConsumer /\ late[c] /\ InGet(c)) ~> ~InGet(c)

\* C7: FIFO.  The k-th string extracted by get is the k-th string committed
\* by put.
C7_Fifo ==
    /\ Len(delivered[0]) <= Len(committed[0])
    /\ \A k \in 1 .. Len(delivered[0]) : delivered[0][k] = committed[0][k]
\* Three strings went through a queue of capacity two: the third was stored
\* in, and read from, a slot used before.
C7_Witness == Q0.capacity > 1 /\ Len(delivered[0]) > Q0.capacity

\* C8: exactly-once delivery.  No string is extracted twice, every string
\* extracted was committed, every string a consumer holds was extracted and
\* no two consumers hold the same one, and the committed strings not yet
\* extracted are exactly the ones held in the queue's slots.
C8_ExactlyOnce ==
    /\ \A i, j \in 1 .. Len(delivered[0]) : i # j => delivered[0][i] # delivered[0][j]
    /\ Range(delivered[0]) \subseteq Range(committed[0])
    /\ \A c \in Consumers : Range(got[c]) \subseteq Range(delivered[0])
    /\ \A c, d \in Consumers : c # d => Range(got[c]) \cap Range(got[d]) = {}
    /\ Range(committed[0]) \ Range(delivered[0]) = Range(Held(0))
    /\ Len(committed[0]) = Len(delivered[0]) + Q0.count
\* Two producers have committed, a consumer holds one string and another is
\* still in the queue.
C8_Witness ==
    /\ Cardinality({p \in Producers : \E i \in 1 .. Len(committed[0]) :
                        committed[0][i][1] = create_test_string(p, 1)[1]}) = 2
    /\ \E c \in Consumers : Len(got[c]) > 0
    /\ Q0.count > 0

\* C9: 0 <= count <= C and head, tail in [0, C).
C9_Bounds ==
    /\ Q0.count \in 0 .. Q0.capacity
    /\ Q0.head \in 0 .. (Q0.capacity - 1)
    /\ Q0.tail \in 0 .. (Q0.capacity - 1)
\* A full queue of capacity two whose head is at its last slot.
C9_Witness == Q0.capacity > 1 /\ Q0.count = Q0.capacity /\ Q0.head = Q0.capacity - 1

\* C10: while no thread holds the queue mutex, NOT_FULL.signaled is true
\* exactly when count < C.
C10_NotFullIffSpace ==
    lockq[0] = NoThread => (signaled[0]["nf"] <=> Q0.count < Q0.capacity)
\* The queue is full, the mutex is free and a producer is blocked on NOT_FULL.
C10_Witness ==
    /\ lockq[0] = NoThread /\ Q0.count = Q0.capacity /\ ~signaled[0]["nf"]
    /\ \E p \in Producers : pc[p] = "put_blocked"

(***************************************************************************)
(* Claims about the pipeline.                                              *)
(***************************************************************************)
\* No worker ever finds its queue empty after NOT_EMPTY released it.
PipeRecheckUnreached == \A t \in Threads : pc[t] # "get_fin2"

ActiveStages == 0 .. (nst - 1)
PipelineDone ==
    /\ pc[Main] = "d_done"
    /\ \A i \in ActiveStages : pc[Worker(i)] = "w_done"

\* C1: under fair scheduling every pipeline run ends: every worker has left
\* its loop and exited, every wait_finished and fini has returned and the
\* driver has reached the completion notice.
C1_PipelineTerminates == <>PipelineDone

\* The composition T[N-1] o ... o T[0] of the stage transforms, applied to s
\* from stage i on.
RECURSIVE Through(_, _)
Through(i, s) == IF i >= nst THEN s ELSE Through(i + 1, process_function(xf[i], s))

\* The lines of l that precede the first <END>.
RECURSIVE Payload(_)
Payload(l) ==
    IF l = <<>> \/ Head(l) = END THEN <<>> ELSE <<Head(l)>> \o Payload(Tail(l))

Expected == [k \in 1 .. Len(Payload(input)) |-> Through(0, Payload(input)[k])]
IsPrefix(a, b) == Len(a) <= Len(b) /\ \A k \in 1 .. Len(a) : a[k] = b[k]

\* C2: the payload lines printed by the terminal stage are the input lines
\* that precede the first <END>, each mapped through the composition of the
\* stage transforms, in input order, none lost and none duplicated: what
\* has been printed so far is a prefix of that sequence, and all of it once
\* the pipeline has shut down.
C2_OutputIsTransformedInput ==
    /\ IsPrefix(out, Expected)
    /\ PipelineDone => out = Expected

EndCount(l) == Cardinality({k \in 1 .. Len(l) : l[k] = END})

\* C3: at most one <END> is ever committed into a stage's queue, and exactly
\* one by the time the pipeline has shut down; a worker dequeues nothing
\* after <END>.
C3_OneEndPerStage ==
    \A i \in ActiveStages :
        /\ EndCount(committed[i]) <= 1
        /\ PipelineDone => EndCount(committed[i]) = 1
        /\ \A k \in 1 .. Len(delivered[i]) : delivered[i][k] = END => k = Len(delivered[i])

(***************************************************************************)
(* Claims about the latches of the queue.                                  *)
(***************************************************************************)
\* C11: while no thread holds the queue mutex, NOT_EMPTY.signaled implies
\* count > 0 or FINISHED.signaled.
C11_NotEmptyImpliesItems ==
    (lockq[0] = NoThread /\ signaled[0]["ne"]) =>
        (Q0.count > 0 \/ signaled[0]["fin"])
\* A get has emptied the queue again: the mutex is free, a consumer holds a
\* string, the queue is empty, not finished, and NOT_EMPTY is reset.
C11_Witness ==
    /\ lockq[0] = NoThread /\ Q0.count = 0 /\ ~signaled[0]["fin"]
    /\ ~signaled[0]["ne"]
    /\ \E c \in Consumers : Len(got[c]) > 0

\* C12: in every queue, between its init and its destroy (while its stage
\* is initialized), once FINISHED.signaled is true it stays true, and a
\* signal_finished on a queue whose FINISHED is already signaled changes
\* neither the latches nor the queue.
C12_FinishedMonotonic ==
    [][/\ \A i \in Stages :
             (ctx[i].initialized /\ signaled[i]["fin"]) => signaled'[i]["fin"]
       /\ \A t \in Threads :
             (pc[t] = "sf_signal" /\ signaled[tq[t]]["fin"] /\ pc'[t] = "sf_bcast")
                 => (signaled' = signaled /\ q' = q)]_vars
\* fini is signalling finished on a stage whose <END> had signaled it before.
C12_Witness ==
    /\ pc[Main] = "sf_bcast" /\ stk[Main] # <<>> /\ Head(stk[Main]) = "pf_unlock"
    /\ signaled[tq[Main]]["fin"]
    /\ EndCount(committed[tq[Main]]) > 0

(***************************************************************************)
(* Claims about draining, contention and blocking.                         *)
(***************************************************************************)
GetReturnsNull(c) == InGet(c) /\ pc'[c] = "cons_ret" /\ rv'[c] = NULL

\* C13: drain semantics.  With one consumer, a get returns the absent value
\* only when FINISHED is signaled and the queue is empty, and by then the
\* consumer has been returned every string committed so far, in the order
\* of their commits.
C13_Drain ==
    [][\A c \in Consumers :
          (SingleConsumer /\ GetReturnsNull(c)) =>
              /\ signaled[0]["fin"]
              /\ Q0.count = 0
              /\ got[c] = committed[0]]_vars
\* The consumer was returned two strings and then the absent value.
C13_Witness ==
    /\ SingleConsumer /\ pc["c1"] = "cons_ret" /\ rv["c1"] = NULL
    /\ Len(got["c1"]) >= 2 /\ got["c1"] = committed[0]

TwoProducers == Cardinality(ActiveProducers) >= 2

\* C14: with two or more producers no put returns the full-queue error, so
\* no producer stops early, and once all threads are done the consumers
\* hold as many strings as the producers set out to put.
C14_NoPutFails ==
    TwoProducers =>
        /\ \A p \in Producers : ~(pc[p] = "prod_ret" /\ rv[p] = ErrFull)
        /\ (\A t \in Producers \cup Consumers : pc[t] \in {"off", "done"}) =>
               \A p \in ActiveProducers : todo[p] = 0

\* The strings producer p puts in a run of n calls, in order.
Produced(p, n) == [k \in 1 .. n |-> create_test_string(p, n + 1 - k)]

ContentionRun ==
    /\ NoFinisher /\ ActiveProducers = {"p1"} /\ ActiveConsumers = {"c1"}
    /\ Q0.capacity = 1
ContentionDone ==
    /\ pc["p1"] = "done" /\ pc["c1"] = "done"
    /\ got["c1"] = Produced("p1", MaxCalls)

\* C15: with capacity 1, one producer putting MaxCalls strings and one
\* consumer getting MaxCalls strings, both threads terminate and the
\* consumer holds exactly those strings in insertion order.
C15_CapacityOne == ContentionRun => <>ContentionDone
C15_Witness == ContentionRun /\ ContentionDone

PutLabels == {"put_wait", "put_blocked", "put_lock", "put_nf", "put_ne"}
PutReturns(p) == pc[p] \in PutLabels /\ pc'[p] = "prod_ret"
GetReturns(c) == InGet(c) /\ pc'[c] = "cons_ret"

\* C16: blocking, one producer and one consumer, no finished signal.  A put
\* issued on a full queue returns only after a get has extracted a string,
\* and returns success; a get issued on an empty queue returns only after a
\* put has committed a string, and returns a string; and both do return.
C16_Blocking ==
    /\ [][/\ \A p \in Producers : (PutReturns(p) /\ mark[p] >= 0) =>
                 (Len(delivered[0]) > mark[p] /\ rv'[p] = NULL)
          /\ \A c \in Consumers : (GetReturns(c) /\ mark[c] >= 0) =>
                 (Len(committed[0]) > mark[c] /\ rv'[c] # NULL)]_vars
    /\ (mark["p1"] >= 0) ~> (pc["p1"] = "prod_ret" /\ rv["p1"] = NULL)
    /\ (mark["c1"] >= 0) ~> (pc["c1"] = "cons_ret" /\ rv["c1"] # NULL)
\* A put issued on a full queue and a get issued on an empty one have both
\* returned.
C16_Witness ==
    /\ pc["p1"] = "prod_ret" /\ mark["p1"] >= 0 /\ rv["p1"] = NULL
    /\ pc["c1"] = "cons_ret" /\ mark["c1"] >= 0 /\ rv["c1"] # NULL

(***************************************************************************)
(* Claims about the latch.                                                 *)
(***************************************************************************)
ActiveWaiters == {w \in LatchWaiters : pc[w] # "off"}
NoResetAfter(n) == \A k \in (n + 1) .. Len(ops) : ops[k][1] # "reset"
WaitBlocks(w) == pc[w] = "mw_wait" /\ pc'[w] = "mw_blocked"
WaitPasses(w) == pc[w] = "mw_wait" /\ pc'[w] = "lw_ret"

\* C17: durable signaling.  A wait that reaches its test when the latest
\* signal / reset call on the latch was a signal does not block, whether or
\* not a thread was waiting when that signal was made.
C17_DurableSignal ==
    [][\A w \in LatchWaiters : LastOp = "signal" => ~WaitBlocks(w)]_vars
\* After signal; signal; reset; signal, the last signal made with no thread
\* waiting, a wait has passed.
C17_Witness ==
    /\ OpNames = <<"signal", "signal", "reset", "signal">>
    /\ \E w \in LatchWaiters :
          /\ pc[w] = "lw_ret" /\ mark[w] = 4
          /\ ops[4][2] = 0

\* C18: a wait passes only when signaled is true, and no step of a waiter
\* changes signaled; after a reset (or before any signal) a wait does not
\* pass; and once some wait has returned, with no reset since, no wait
\* blocks.
C18_WaitKeepsSignal ==
    [][/\ \A w \in LatchWaiters : WaitPasses(w) => Latch
       /\ ops' = ops => signaled' = signaled
       /\ \A w \in LatchWaiters : LastOp \in {"reset", "init"} => ~WaitPasses(w)
       /\ \A w, v \in LatchWaiters :
             (mark[v] >= 0 /\ NoResetAfter(mark[v])) => ~WaitBlocks(w)]_vars
\* A reset was made, and since then a waiter's waits have all returned; the
\* latch is still signaled.
C18_Witness ==
    /\ \E w \in LatchWaiters :
          /\ pc[w] = "done" /\ todo[w] = 0 /\ NoResetAfter(mark[w])
    /\ Latch
    /\ \E k \in 1 .. Len(ops) : ops[k][1] = "reset"

\* k waiters blocked on the unsignaled latch at the first signal, at least
\* k signals made, no reset.
SignaledForAll ==
    /\ ops # <<>> /\ ops[1] = <<"signal", Cardinality(ActiveWaiters)>>
    /\ Len(ops) >= Cardinality(ActiveWaiters)
    /\ NoResetAfter(0)
AllWaitersDone == \A w \in ActiveWaiters : pc[w] = "done"

\* C19: if k threads are blocked in wait on an unsignaled latch and signal
\* is then called k times or more, with no reset, all k waits return.
C19_AllWaitersReturn == SignaledForAll ~> (AllWaitersDone \/ ~NoResetAfter(0))
\* Two waiters were blocked, two signals were made, both waiters are done.
C19_Witness ==
    /\ Cardinality(ActiveWaiters) = 2 /\ Len(ops) = 2
    /\ SignaledForAll /\ AllWaitersDone

(***************************************************************************)
(* Claims about the stage interface.                                       *)
(***************************************************************************)
PlaceWorkChecked(t) == pc[t] = "pw_check" /\ pc'[t] # "pw_check" /\ arg[t] # NULL
StageUntouched ==
    /\ q' = q /\ signaled' = signaled /\ ctx' = ctx /\ committed' = committed

\* C20: place_work on a stage that is not initialized returns
\* NotInitializedError, and on an initialized stage whose finished flag is
\* set FinishedError; in both cases nothing is enqueued, no latch is
\* signaled and the stage state is unchanged.
C20_PlaceWorkRefuses ==
    [][\A t \in Threads :
          /\ (PlaceWorkChecked(t) /\ ~ctx[tq[t]].initialized) =>
                 (pc'[t] = Head(stk[t]) /\ rv'[t] = ErrNotInit /\ StageUntouched)
          /\ (PlaceWorkChecked(t) /\ ctx[tq[t]].initialized /\ ctx[tq[t]].finished) =>
                 (pc'[t] = Head(stk[t]) /\ rv'[t] = ErrFinished /\ StageUntouched)]_vars
\* A place_work of the client returned NotInitializedError before, and its
\* latest one has just returned FinishedError.
C20_Witness ==
    /\ ErrNotInit \in Range(got[Main])
    /\ pc[Main] = "cl_ret" /\ arg[Main] # NULL /\ rv[Main] = ErrFinished

InitChecked(t) == pc[t] = "pi_check" /\ pc'[t] # "pi_check"

C22_FiniReturns ==
    /\ (pc[Main] = "pf_check" /\ ctx[0].initialized /\ committed[0] = <<>>)
           ~> (pc[Main] = "cl_ret" /\ ~ctx[0].initialized)
    /\ [][(InitChecked(Main) /\ ~ctx[0].initialized) =>
              /\ rv'[Main] = NULL
              /\ q'[0] = consumer_producer_init(qsize)
              /\ ~signaled'[0]["fin"] /\ ~ctx'[0].finished /\ ctx'[0].initialized
              /\ pc'[Worker(0)] = "w_loop"]_vars

WaitReturns(t) == pc[t] = "pwf_poll" /\ pc'[t] # "pwf_poll"
WaitChecked(t) == pc[t] = "pwf_check" /\ pc'[t] # "pwf_check"

\* C24: a stage's wait_finished returns success only when the stage's
\* FINISHED latch is signaled and its worker has left the dequeue loop and
\* set finished; on a stage that is not initialized it returns
\* NotInitializedError at once, and on an initialized one it never returns
\* before it has waited on FINISHED.
C24_WaitFinished ==
    [][\A t \in Threads :
          /\ WaitReturns(t) =>
                 /\ pc'[t] = Head(stk[t]) /\ rv'[t] = NULL
                 /\ signaled[tq[t]]["fin"] /\ ctx[tq[t]].finished
                 /\ pc[Worker(tq[t])] = "w_done"
          /\ (WaitChecked(t) /\ ~ctx[tq[t]].initialized) =>
                 (pc'[t] = Head(stk[t]) /\ rv'[t] = ErrNotInit /\ StageUntouched)
          /\ (WaitChecked(t) /\ ctx[tq[t]].initialized) => pc'[t] = "wf_wait"]_vars
\* A wait_finished of the client returned NotInitializedError before, and
\* its latest one has just returned success on a stage that took <END>.
C24_Witness ==
    /\ pc[Main] = "cl_ret" /\ arg[Main] = NULL /\ rv[Main] = NULL
    /\ ctx[0].initialized /\ ctx[0].finished
    /\ EndCount(committed[0]) = 1
    /\ ErrNotInit \in Range(got[Main])

(***************************************************************************)
(* Claims about the driver and the worker.                                 *)
(***************************************************************************)
\* The driver is in cleanup after a failed init (main, line 349).
Unwinding ==
    \/ pc[Main] \in {"d_unwind", "d_exit2"}
    \/ stk[Main] # <<>> /\ stk[Main][Len(stk[Main])] = "d_unwind"
FiniCalls(n) == [k \in 1 .. n |-> <<"fini", k - 1>>]

\* C23: if the init of stage k fails, the driver calls fini on the stages
\* 0..k-1 in this order and on no other stage, attaches nothing and feeds
\* no input, and the cleanup completes: the driver reaches its return 2.
C23_InitFailureCleanup ==
    /\ [](Unwinding =>
            /\ IsPrefix(ops, FiniCalls(icount))
            /\ \A i \in Stages : ~ctx[i].next /\ committed[i] = <<>>
            /\ input = <<>>)
    /\ [](pc[Main] = "d_exit2" => ops = FiniCalls(icount))
    /\ (pc[Main] = "d_unwind") ~> (pc[Main] = "d_exit2")

\* The calls the driver makes from step 4 on: wait_finished on every stage
\* in ascending order, then fini on every stage in ascending order.
DriverOrder ==
    [k \in 1 .. (2 * nst) |-> IF k <= nst THEN <<"wait_finished", k - 1>>
                                          ELSE <<"fini", k - 1 - nst>>]

WorkerLeaves(w) == pc[w] # "w_exit" /\ pc'[w] = "w_exit"

\* C26: when the transform returns absent or the downstream place_work
\* returns an error, the worker logs the error and is back at the head of
\* its loop with finished not set; and a worker leaves its loop only on an
\* absent get result or on <END> (after forwarding it, if it has a
\* downstream).
C26_WorkerContinues ==
    [][\A w \in Workers :
          /\ (pc[w] = "w_placed" /\ rv[w] # NULL /\ pc'[w] # "w_placed") =>
                 got'[w] = Append(got[w], rv[w])
          /\ got'[w] # got[w] => (pc'[w] = "w_loop" /\ ctx' = ctx)
          /\ WorkerLeaves(w) =>
                 \/ pc[w] = "w_item" /\ rv[w] = NULL
                 \/ pc[w] = "w_item" /\ rv[w] = END /\ ~ctx[StageOf(w)].next
                 \/ stk[w] # <<>> /\ Head(stk[w]) = "w_exit" /\ arg[w] = END]_vars
\* A worker has logged the FinishedError of its downstream and then
\* dequeued the next item.
C26_Witness ==
    \E w \in Workers :
        /\ ErrFinished \in Range(got[w])
        /\ pc[w] = "w_item" /\ rv[w] # NULL

\* The driver has left step 3: it is at, or has made a call of, step 4 or 5.
PastFeeding == pc[Main] \in {"d_wait", "d_fini", "d_done"} \/ ops # <<>>

\* C27: the driver places exactly one <END> into stage 0 and nothing after
\* it: the lines read hold <END> at most as their last line, what stage 0
\* was given is the lines read before <END> followed, at the end, by one
\* <END> (read or synthesized), and every run that reaches the feeding
\* step does get its <END> placed.
C27_ExactlyOneEnd ==
    /\ [](/\ \A k \in 1 .. Len(input) : input[k] = END => k = Len(input)
          /\ IsPrefix(committed[0], Payload(input) \o <<END>>)
          /\ PastFeeding => committed[0] = Payload(input) \o <<END>>)
    /\ (pc[Main] = "d_read") ~> (EndCount(committed[0]) = 1)

(***************************************************************************)
(* Claims about the queue's interface under one client (QueueApiSpec).     *)
(***************************************************************************)
\* The client's init call returns in this step.
InitReturns(t) == pc[t] = "qi_check" /\ pc'[t] = "qc_ret"

\* C28: an init of the queue with capacity C >= 1 returns no error and
\* leaves the queue with capacity C, count = 0, head = tail = 0, NOT_FULL
\* signaled and NOT_EMPTY and FINISHED unsignaled; an init with C <= 0 or
\* with an absent queue returns an error and leaves every queue and every
\* latch as it was.
C28_QueueInit ==
    [][\A t \in Threads : InitReturns(t) =>
          IF tq[t] = 0 /\ qsize >= 1
          THEN /\ rv'[t] = NULL
               /\ q'[0].capacity = qsize
               /\ q'[0].count = 0 /\ q'[0].head = 0 /\ q'[0].tail = 0
               /\ q'[0].items = [k \in 0 .. (qsize - 1) |-> NULL]
               /\ signaled'[0]["nf"]
               /\ ~signaled'[0]["ne"] /\ ~signaled'[0]["fin"]
          ELSE /\ rv'[t] # NULL
               /\ q' = q /\ signaled' = signaled /\ lockq' = lockq]_vars
\* An init of the queue with the greatest capacity has returned: the queue
\* is empty, with fresh latches.
C28_Witness ==
    /\ pc[Main] = "qc_ret" /\ ops = <<<<"init", 0>>>> /\ tq[Main] = 0
    /\ qsize = MaxCap /\ rv[Main] = NULL
    /\ q[0].capacity = MaxCap /\ q[0].count = 0
    /\ signaled[0]["nf"] /\ ~signaled[0]["ne"] /\ ~signaled[0]["fin"]

\* The queue was destroyed and not initialized again.
Destroyed == q[0].capacity = 0
\* The client is inside a get, inside a put, on the queue &queue.
InQueueGet(t) == tq[t] = 0 /\ (pc[t] = "get_check" \/ InGet(t))
InQueuePut(t) == tq[t] = 0 /\ pc[t] \in {"put_check", "put_wait", "put_blocked", "put_lock", "put_nf", "put_ne"}
\* C29: a get on the destroyed queue returns the absent value and a put of
\* a string on it returns an error; neither changes the zeroed queue or a
\* latch's flag, and each returns (does not block).
C29_DestroyedQueue ==
    /\ [][\A t \in Threads : (Destroyed /\ (InQueueGet(t) \/ InQueuePut(t))) =>
             /\ q' = q /\ signaled' = signaled
             /\ (InQueueGet(t) /\ pc'[t] = "qc_ret") => rv'[t] = NULL
             /\ (InQueuePut(t) /\ pc'[t] = "qc_ret") => rv'[t] # NULL]_vars
    /\ (Destroyed /\ InQueueGet(Main)) ~> (pc[Main] = "qc_ret")
    /\ (Destroyed /\ InQueuePut(Main)) ~> (pc[Main] = "qc_ret")

\* The entry of each core operation.
CheckLabels == {"qi_check", "put_check", "get_check", "sf_check", "wf_check", "qd_check",
                "ms_check", "mr_check", "md_check", "mw_check"}
\* The call thread t is entering has an absent reference among its arguments.
AbsentCall(t) ==
    /\ pc[t] \in CheckLabels
    /\ tq[t] = NoQueue \/ (pc[t] = "put_check" /\ arg[t] = NULL)
\* C30: a core operation called with an absent reference returns in its
\* first step: -1 from the latch's wait and the queue's wait_finished, an
\* error string from the queue's init and put (put also for an absent
\* string), the absent value from get, nothing from the latch's signal,
\* reset and destroy and the queue's destroy and signal_finished; no queue,
\* no latch flag and no waiter changes.
C30_AbsentReference ==
    [][\A t \in Threads : (AbsentCall(t) /\ pc'[t] # pc[t]) =>
          /\ pc'[t] = "qc_ret"
          /\ q' = q /\ signaled' = signaled /\ lockq' = lockq
          /\ \A u \in Threads \ {t} : pc'[u] = pc[u]
          /\ pc[t] \in {"mw_check", "wf_check"} => rv'[t] = RcFail
          /\ pc[t] \in {"qi_check", "put_check"} => rv'[t] = ErrInvalid
          /\ pc[t] = "get_check" => rv'[t] = NULL
          /\ pc[t] \in {"ms_check", "mr_check", "md_check", "qd_check", "sf_check"} =>
                rv'[t] = rv[t]]_vars
\* A wait called with an absent reference (the latch's wait or the queue's
\* wait_finished) has returned -1 while the live queue, full with one
\* string, is as the put before it left it.
C30_Witness ==
    /\ pc[Main] = "qc_ret" /\ tq[Main] = NoQueue
    /\ ops[1][1] \in {"mw_check", "wf_check"}
    /\ rv[Main] = RcFail
    /\ q[0].capacity = 1 /\ q[0].count = 1
    /\ signaled[0]["ne"] /\ ~signaled[0]["nf"]

(***************************************************************************)
(* Claims about the pipeline's use of its queues and stages.               *)
(***************************************************************************)
\* Stage i was initialized by main and fini has destroyed its queue.
DestroyedStage(i) == i < icount /\ ~ctx[i].initialized
\* Thread t is executing put, get, signal_finished or wait_finished on queue i.
QueueOpLabels == PutLabels \cup GetLabels \cup {"sf_signal", "sf_bcast", "wf_wait", "wf_blocked"}
UsesQueue(t, i) == tq[t] = i /\ pc[t] \in QueueOpLabels

\* C31: once fini has destroyed the queue of a stage, no thread is inside
\* put, get, signal_finished or wait_finished on that queue, at the
\* destruction or at any later time.
C31_NoUseAfterDestroy ==
    \A i \in Stages : DestroyedStage(i) => \A t \in Threads : ~UsesQueue(t, i)
\* Both queues of a two-stage pipeline that printed a line are destroyed.
C31_Witness ==
    /\ pc[Main] = "d_done" /\ nst = 2 /\ out # <<>>
    /\ DestroyedStage(0) /\ DestroyedStage(1)

\* The client has called fini on the stage (it is inside fini, or fini has
\* returned and the stage is uninitialized again).
FiniBegun ==
    \/ pc[Main] \in {"pf_check", "pf_unlock", "pf_join", "pf_destroy"}
    \/ stk[Main] # <<>> /\ Head(stk[Main]) = "pf_unlock"
    \/ ~ctx[0].initialized
CountedIds == UNION {{heap.slot[i][k] : k \in Counted(q[i])} : i \in {j \in Stages : q[j].capacity > 0}}
\* C33: no string allocated by put or by a transform is freed twice or
\* freed or read while not allocated; a string get has returned to a worker
\* is no longer counted in a queue (so destroy does not free it); once main
\* has finalised every initialized stage no string is left allocated.
C33_HeapDiscipline ==
    /\ heap.bad = {}
    /\ \A t \in Threads : heap.hand[t] # NoId => heap.hand[t] \notin CountedIds
    /\ pc[Main] \in {"d_done", "d_exit2"} => heap.live = {}
\* A two-stage pipeline has printed a line and finalised both stages: the
\* copies put made and the transforms' results were freed, none is left.
C33_Witness ==
    /\ pc[Main] = "d_done" /\ nst = 2 /\ out # <<>>
    /\ heap.live = {} /\ Cardinality(heap.freed) >= 6

\* Main has initialized and attached every stage.
Constructed == pc[Main] \notin {"d_init", "d_attach"} /\ ~Unwinding
\* Worker t is inside the place_work of the next stage, or back from it.
Forwarding(t) ==
    \/ pc[t] = "w_placed"
    \/ stk[t] # <<>> /\ stk[t][Len(stk[t])] \in {"w_placed", "w_exit"}
\* C34: once every stage is attached, the downstream of each stage that is
\* not finalised is the place_work of the next stage, and the last stage
\* has none; no worker dequeues a string before that; only the last
\* stage's worker prints, and it never forwards, while every other worker
\* forwards to the stage after its own.
C34_Wiring ==
    /\ [](Constructed =>
             \A i \in 0 .. (nst - 1) :
                 /\ ctx[i].initialized => (ctx[i].next <=> i < nst - 1)
                 /\ Forwarding(Worker(i)) => i < nst - 1 /\ tq[Worker(i)] = i + 1)
    /\ [][delivered' # delivered => Constructed]_vars
    /\ [][\A i \in Stages : ctx[i].initialized /\ Constructed =>
                ctx'[i].next = ctx[i].next \/ ~ctx'[i].initialized]_vars
    /\ [][out' # out => pc[Worker(nst - 1)] = "w_item" /\ pc'[Worker(nst - 1)] = "w_loop"]_vars
\* In a two-stage pipeline the first worker is forwarding a transformed
\* string to the second stage after the second worker has printed a line.
C34_Witness ==
    /\ nst = 2 /\ out # <<>>
    /\ pc[Worker(0)] = "pw_check" /\ tq[Worker(0)] = 1 /\ arg[Worker(0)] # END
    /\ ctx[0].next /\ ~ctx[1].next

(***************************************************************************)
(* Further claims about the bounded queue under the test threads.          *)
(***************************************************************************)
SingleProducer == Cardinality(ActiveProducers) = 1
\* C35: with exactly one producer on the queue, whenever the producer has
\* passed the wait on NOT_FULL and is about to re-check under the queue
\* mutex, count < capacity; no put returns the full-queue error.
C35_RecheckNeverFails ==
    SingleProducer =>
        \A p \in Producers :
            /\ pc[p] = "put_lock" => Q0.count < Q0.capacity
            /\ ~(pc[p] = "prod_ret" /\ rv[p] = ErrFull)
\* The only producer has passed NOT_FULL on a queue of capacity 1 for its
\* second string, after a consumer took the first.
C35_Witness ==
    /\ ActiveProducers = {"p1"} /\ pc["p1"] = "put_lock"
    /\ Q0.capacity = 1 /\ Len(committed[0]) = 1 /\ Len(delivered[0]) = 1

\* C36: a signal_finished sets FINISHED.signaled and changes nothing else
\* of the queue: NOT_EMPTY.signaled, NOT_FULL.signaled, count, head, tail,
\* the slots and the queue mutex are as before each of its steps.
C36_SignalFinishedFrame ==
    [][\A t \in Threads : (pc[t] \in {"sf_signal", "sf_bcast"} /\ pc'[t] # pc[t]) =>
          /\ q' = q
          /\ lockq' = lockq
          /\ \A i \in Stages : signaled'[i]["ne"] = signaled[i]["ne"]
          /\ \A i \in Stages : signaled'[i]["nf"] = signaled[i]["nf"]
          /\ \A i \in Stages \ {tq[t]} : signaled'[i] = signaled[i]
          /\ signaled'[tq[t]]["fin"]]_vars
\* signal_finished has set FINISHED on a full queue of the greatest
\* capacity: the strings, NOT_EMPTY (signaled) and NOT_FULL (unsignaled)
\* are as the puts left them.
C36_Witness ==
    /\ pc[Finisher] = "sf_bcast" /\ signaled[0]["fin"]
    /\ Q0.count = Q0.capacity /\ Q0.capacity = MaxCap
    /\ signaled[0]["ne"] /\ ~signaled[0]["nf"]

(***************************************************************************)
(* Claims about the locks.                                                 *)
(***************************************************************************)
\* Thread t holds a queue mutex / a stage's context_mutex.
HoldsQueueLock(t) == \E i \in Stages : lockq[i] = t
HoldsStageLock(t) == \E i \in Stages : ctxlock[i] = t
\* Thread t is in monitor_wait (at its test or blocked), or in pthread_join.
WaitLabels == {Entry(m) : m \in Mon} \cup {Blocked(m) : m \in Mon} \cup {"pf_join"}
\* Thread t is about to acquire a queue mutex / a stage's context_mutex.
QueueLockLabels == {"put_lock", "get_empty", "get_take"}
StageLockLabels == {"pw_check", "pwf_check", "pwf_poll", "pf_check", "pf_destroy", "pi_check",
                    "w_exit", "d_init", "d_attach"}
\* Thread t is inside put under a place_work.
InPlaceWorkPut(t) ==
    /\ pc[t] \in PutLabels
    /\ \E k \in 1 .. Len(stk[t]) : stk[t][k] = "pw_afterput"
NoFini == \A k \in 1 .. Len(ops) : ops[k][1] # "fini"
\* Worker w has left its loop.
LeftLoop(w) ==
    \/ pc[w] \in {"w_exit", "w_done"}
    \/ stk[w] # <<>> /\ stk[w][Len(stk[w])] = "w_exit"
\* C38: in a pipeline run, as long as main has called no fini, the FINISHED
\* latch of a stage is signaled only if <END> was committed to the stage's
\* queue, no get of a worker has returned the absent value, and a worker
\* that has left its loop has dequeued <END> as its last string.
C38_FinishedAfterEnd ==
    NoFini =>
        \A i \in Stages :
            /\ signaled[i]["fin"] => END \in Range(committed[i])
            /\ ~(pc[Worker(i)] = "w_item" /\ rv[Worker(i)] = NULL)
            /\ LeftLoop(Worker(i)) =>
                   delivered[i] # <<>> /\ delivered[i][Len(delivered[i])] = END
\* Both workers of a two-stage pipeline have left their loops on <END>
\* after a line was printed, and main has not called fini yet.
C38_Witness ==
    /\ NoFini /\ nst = 2 /\ out # <<>>
    /\ pc[Worker(0)] = "w_done" /\ pc[Worker(1)] = "w_done"
    /\ signaled[0]["fin"] /\ signaled[1]["fin"]


\* ---------------------------------------------------------------------
\* Further claims about the latch

\* Every active waiter was blocked on the unsignaled latch when the first
\* signal was made, and no reset has been made.
SignaledWhileBlocked ==
    /\ ops # <<>> /\ ops[1] = <<"signal", Cardinality(ActiveWaiters)>>
    /\ NoResetAfter(0)

\* C39: after a single signal with no later reset, every thread that was
\* blocked in wait on the latch at the signal eventually returns, however
\* many threads were blocked.
C39_OneSignalReleasesAll ==
    SignaledWhileBlocked ~> (AllWaitersDone \/ ~NoResetAfter(0))


\* ---------------------------------------------------------------------
\* Further claims about the latches of the queue

\* C40: in every state in which no thread holds the queue mutex and
\* count > 0, NOT_EMPTY.signaled is true and tail = (head + count) mod C.
C40_ItemsImplyNotEmpty ==
    (lockq[0] = NoThread /\ Q0.count > 0) =>
        /\ signaled[0]["ne"]
        /\ Q0.tail = (Q0.head + Q0.count) % Q0.capacity
\* A get has left an item behind in a queue of capacity two whose tail has
\* wrapped around: the mutex is free and NOT_EMPTY is still signaled.
C40_Witness ==
    /\ lockq[0] = NoThread /\ Q0.capacity = 2
    /\ Q0.count = 1 /\ Q0.head = 1 /\ Q0.tail = 0
    /\ signaled[0]["ne"]
    /\ \E c \in Consumers : Len(got[c]) > 0

====
